---- MODULE Spec2Model ----
(***************************************************************************)
(* A model of the registry synchronisation pipeline of erc8004_mcp:        *)
(*   scripts/pull_official.py  - cursor-paginated fetcher and its client   *)
(*   scripts/pull_smithery.py  - page-paginated fetcher and its client     *)
(*   scripts/introspect_mcp_servers.py - capability introspection          *)
(*   scripts/merge_registries.py - name normalisation, merge and export    *)
(* Each part has its own specification over the module's variables; the    *)
(* variables of the parts a specification does not run hold NotRun, or     *)
(* their initial values, throughout.                                       *)
(***************************************************************************)
EXTENDS Integers, Sequences, FiniteSets, TLC

VARIABLES
    rq,              \* client -> the activation record of _request_with_retry
    source,          \* which fetch script the behaviour runs
    pc,              \* position of pull_servers
    state,           \* sync_state.json of that source (state.state until saved)
    clock,           \* datetime.now(), in ticks
    runs,            \* number of pull_servers runs started
    full_sync,       \* argument of pull_servers
    limit,           \* argument of pull_servers (NoLimit: None)
    updated_since,   \* argument of pull_servers (NoTime: None)
    has_key,         \* pull_smithery: an API key is available
    sync_timestamp,  \* local of pull_servers (official)
    start_time,      \* local of pull_servers
    sync_start,      \* local of pull_servers
    servers_fetched, \* local of pull_servers
    cursor,          \* local of pull_servers (official)
    page,            \* local of pull_servers (smithery)
    total_pages,     \* local of pull_servers (smithery)
    servers,         \* len(servers) of the last page received
    idx,             \* smithery: index in servers of the record being fetched
    metadata,        \* official: nextCursor of the last page received
    request,         \* the request in flight while pc = "request"
    nreq,            \* list requests the loop of this run has sent
    first_req_at,    \* clock when the loop of this run sent its first request
    exit,            \* how the run ended
    prev_exit,       \* official: how the run before it ended
    state_file,      \* client -> the sync_state.json on disk
    sync_state,      \* client -> the SyncState object of the running process
    last_save,       \* client -> what the last SyncState.save() was writing
    saves,           \* client -> number of SyncState.save() calls begun
    content_type,    \* the Content-Type of a reply of status 200
    body,            \* the document of a reply that is not an event stream
    stream,          \* the lines of an event-stream reply
    line_no,         \* _make_jsonrpc_request: lines of the reply scanned
    reply,           \* _make_jsonrpc_request: how the call ended
    remotes,         \* introspect: server["remotes"]
    packages,        \* introspect: server["packages"] is not empty
    remote_no,       \* introspect: remotes the for loop has taken
    query_no,        \* _try_streamable_http: queries answered
    caps,            \* _try_streamable_http: result
    result,          \* introspect: result
    sent,            \* the JSON-RPC requests sent, with their answers
    probe_pc,        \* position of introspect
    servers_dir,     \* the server files: entity id -> it has remotes
    introspection_dir,        \* entity id -> its outcome file
    introspection_state_file, \* introspection_state.json on disk
    introspection_state,      \* state.state of the running introspect_servers
    force,           \* argument of introspect_servers
    batch_limit,     \* argument limit of introspect_servers (NoLimit: None)
    server_list,     \* introspect_servers: servers, after filter and limit
    batch_i,         \* introspect_servers: i of the batch loop
    tasks,           \* introspect_servers: tasks not yet awaited
    in_flight,       \* ids whose introspect coroutine has begun and not ended
    stats,           \* introspect_servers: stats
    batch_pc,        \* position of introspect_servers
    batch_runs,      \* number of introspect_servers runs started
    batch_exit,      \* how the last run ended
    name,            \* argument of normalize_server_name
    normalized,      \* what normalize_server_name returned
    all_servers,     \* merge_all_registries: all_servers, as loaded
    deduplicated,    \* merge_all_registries: deduplicated
    unified,         \* merge_all_registries: unified
    index,           \* the servers of unified/index.json
    merge_pc,        \* position of merge_all_registries
    unified_files,   \* the files of unified/servers
    previous,        \* all_servers and unified of the run before
    merge_runs,      \* number of merge_all_registries runs started
    listed,          \* registry: records of the pages it has sent in this run
    lost,            \* registry: records of this run not fetched or not saved
    pages,           \* registry: list requests of the loop it has answered
    server_json,     \* a server file: its name and its version, if it has one
    outcome_keys     \* the file names made for the outcome of server_json

retryVars == <<rq>>
storeVars == <<state_file, sync_state, last_save, saves>>
sseVars   == <<content_type, body, stream, line_no, reply>>
probeVars == <<remotes, packages, remote_no, query_no, caps, result, sent,
               probe_pc>>
argVars   == <<full_sync, limit, updated_since, has_key>>
fetchVars == <<source, pc, state, clock, runs, argVars, sync_timestamp,
               start_time, sync_start, servers_fetched, cursor, page,
               total_pages, servers, idx, metadata, request, nreq,
               first_req_at, exit, prev_exit>>
batchVars == <<servers_dir, introspection_dir, introspection_state_file,
               introspection_state, force, batch_limit, server_list, batch_i,
               tasks, in_flight, stats, batch_pc, batch_runs, batch_exit>>
normVars  == <<name, normalized>>
mergeVars == <<all_servers, deduplicated, unified, index, merge_pc,
               unified_files, previous, merge_runs>>
logVars   == <<listed, lost, pages>>
keyVars   == <<server_json, outcome_keys>>
vars == <<retryVars, fetchVars, storeVars, sseVars, probeVars, batchVars,
          normVars, mergeVars, logVars, keyVars>>

(***************************************************************************)
(* Python's None, for the string-valued and the number-valued optionals.   *)
(***************************************************************************)
None == "None"

\* the value of a variable of a part that the specification does not run
NotRun == "not run"
NoLimit == 0
NoTime == 0

\* 2 ** attempt
RECURSIVE Pow2(_)
Pow2(n) == IF n = 0 THEN 1 ELSE 2 * Pow2(n - 1)

Last(s) == s[Len(s)]

(***************************************************************************)
(* RetryingHttpClient: _request_with_retry of both clients.                *)
(* One attempt of the for loop is one step; the server's answer to the     *)
(* attempt is the input: an HTTP status, or no response at all (a          *)
(* requests.exceptions.RequestException that is not an HTTPError).         *)
(***************************************************************************)
Statuses == {200, 404, 429, 500, 503}
NetworkError == [kind |-> "net", status |-> 0]
Http(s) == [kind |-> "http", status |-> s]
Outcomes == {Http(s) : s \in Statuses} \cup {NetworkError}

\* response.raise_for_status(): an HTTPError for 400 <= status < 600
RaisesHTTPError(o) == o.kind = "http" /\ o.status >= 400 /\ o.status < 600

Official_MAX_RETRIES == 3
Official_RETRY_DELAY == 2
Smithery_MAX_RETRIES == 3
Smithery_RETRY_DELAY == 2

Clients == {"official", "smithery"}

\* the activation record at the call: last_error = None, attempt = 0
NewCall == [attempt    |-> 0,
            status     |-> "running",
            sent       |-> 0,
            outcomes   |-> <<>>,
            sleeps     |-> <<>>,
            last_error |-> <<>>,
            raised     |-> <<>>]

\* RetryAfter leaving the loop one attempt too early
RetryAfter_GivesUpEarly(r, o, wait_time, max_retries) ==
    [r EXCEPT !.sleeps = Append(@, wait_time),
              !.last_error = <<o>>,
              !.attempt = r.attempt + 1,
              !.status = IF r.attempt + 2 < max_retries THEN "running" ELSE "raised",
              !.raised = IF r.attempt + 2 < max_retries THEN <<>> ELSE <<o>>]

\* the body of one iteration of `for attempt in range(MAX_RETRIES)` when the
\* attempt failed with a sleep of wait_time; leaving the loop raises last_error
RetryAfter(r, o, wait_time, max_retries) ==
    [r EXCEPT !.sleeps = Append(@, wait_time),
              !.last_error = <<o>>,
              !.attempt = r.attempt + 1,
              !.status = IF r.attempt + 1 < max_retries THEN "running" ELSE "raised",
              !.raised = IF r.attempt + 1 < max_retries THEN <<>> ELSE <<o>>]

\* Official_request_with_retry retrying every HTTPError
Official_request_with_retry_Retry4xx(r, o) ==
    LET s == [r EXCEPT !.sent = @ + 1, !.outcomes = Append(@, o)] IN
    IF o.kind = "http" /\ ~RaisesHTTPError(o)
      THEN [s EXCEPT !.status = "returned"]
    ELSE IF o.kind = "http" /\ o.status = 429
      THEN RetryAfter(s, o, Official_RETRY_DELAY * Pow2(r.attempt),
                      Official_MAX_RETRIES)
    ELSE RetryAfter(s, o, Official_RETRY_DELAY * (r.attempt + 1),
                    Official_MAX_RETRIES)

Official_request_with_retry(r, o) ==
    LET s == [r EXCEPT !.sent = @ + 1, !.outcomes = Append(@, o)] IN
    IF o.kind = "http" /\ ~RaisesHTTPError(o)
      THEN [s EXCEPT !.status = "returned"]
    ELSE IF o.kind = "http"
      THEN IF o.status = 429
             THEN RetryAfter(s, o, Official_RETRY_DELAY * Pow2(r.attempt),
                             Official_MAX_RETRIES)
           ELSE IF o.status >= 500
             THEN RetryAfter(s, o, Official_RETRY_DELAY * (r.attempt + 1),
                             Official_MAX_RETRIES)
           ELSE [s EXCEPT !.status = "raised", !.raised = <<o>>]
    ELSE RetryAfter(s, o, Official_RETRY_DELAY * (r.attempt + 1),
                    Official_MAX_RETRIES)

\* Smithery_request_with_retry backing off linearly on 429 too
Smithery_request_with_retry_LinearOn429(r, o) ==
    LET s == [r EXCEPT !.sent = @ + 1, !.outcomes = Append(@, o)] IN
    IF o.kind = "http" /\ ~RaisesHTTPError(o)
      THEN [s EXCEPT !.status = "returned"]
    ELSE IF o.kind = "http" /\ o.status < 500 /\ o.status # 429
      THEN [s EXCEPT !.status = "raised", !.raised = <<o>>]
    ELSE RetryAfter(s, o, Smithery_RETRY_DELAY * (r.attempt + 1),
                    Smithery_MAX_RETRIES)

Smithery_request_with_retry(r, o) ==
    LET s == [r EXCEPT !.sent = @ + 1, !.outcomes = Append(@, o)] IN
    IF o.kind = "http" /\ ~RaisesHTTPError(o)
      THEN [s EXCEPT !.status = "returned"]
    ELSE IF o.kind = "http"
      THEN IF o.status = 429
             THEN RetryAfter(s, o, Smithery_RETRY_DELAY * Pow2(r.attempt),
                             Smithery_MAX_RETRIES)
           ELSE IF o.status >= 500
             THEN RetryAfter(s, o, Smithery_RETRY_DELAY * (r.attempt + 1),
                             Smithery_MAX_RETRIES)
           ELSE [s EXCEPT !.status = "raised", !.raised = <<o>>]
    ELSE RetryAfter(s, o, Smithery_RETRY_DELAY * (r.attempt + 1),
                    Smithery_MAX_RETRIES)

OfficialAttempt ==
    /\ rq["official"].status = "running"
    /\ \E o \in Outcomes :
         rq' = [rq EXCEPT !["official"] = Official_request_with_retry(@, o)]

SmitheryAttempt ==
    /\ rq["smithery"].status = "running"
    /\ \E o \in Outcomes :
         rq' = [rq EXCEPT !["smithery"] = Smithery_request_with_retry(@, o)]

(***************************************************************************)
(* SyncStateStore and RegistryFetcher: pull_servers of both scripts.       *)
(* A behaviour runs one of the two scripts, several times in a row, against *)
(* a registry that answers each request as it likes. The script blocks in  *)
(* its requests, one at a time: a step runs from the answer to one request *)
(* to the sending of the next. Timestamps are clock ticks; a probe or list *)
(* request takes one tick. The record files are not modelled               *)
(* (total_servers, the index and the export are left out): a page is the   *)
(* number of its records, and whether a record can be fetched and saved is *)
(* decided when it is processed.                                           *)
(***************************************************************************)
MaxRuns == 2
MaxRequests == 2
MaxPageLen == 2
MaxLimit == 1
MaxPages == 2

Cursors == {"c1", "c2"}
Sources == {"official", "smithery"}
SinceArgs == {NoTime, 1}

HISTORY_KEEP == 100

\* history[-100:]
KeepLast(h, n) == IF Len(h) <= n THEN h ELSE SubSeq(h, Len(h) - n + 1, Len(h))

\* SyncState._load() without a state file
Official_default_state ==
    [last_sync |-> NoTime, last_cursor |-> None, sync_history |-> <<>>]

Smithery_default_state ==
    [last_sync |-> NoTime, last_page |-> 0, sync_history |-> <<>>]

NoRequest == [kind |-> "none", cursor |-> None, updated_since |-> NoTime,
              page |-> 0]

FetchInit ==
    /\ source \in Sources
    /\ state = IF source = "official" THEN Official_default_state
               ELSE Smithery_default_state
    /\ pc = "idle"
    /\ clock = 1
    /\ runs = 0
    /\ full_sync = FALSE
    /\ limit = NoLimit
    /\ updated_since = NoTime
    /\ has_key = TRUE
    /\ sync_timestamp = NoTime
    /\ start_time = NoTime
    /\ sync_start = NoTime
    /\ servers_fetched = 0
    /\ cursor = None
    /\ page = 0
    /\ total_pages = 0
    /\ servers = 0
    /\ idx = 0
    /\ metadata = None
    /\ request = NoRequest
    /\ nreq = 0
    /\ first_req_at = NoTime
    /\ exit = "none"
    /\ prev_exit = "none"

\* LimitReached letting one record more through
LimitReached_OffByOne(l, fetched) == l # NoLimit /\ fetched > l

\* `if limit and servers_fetched >= limit`
LimitReached(l, fetched) == l # NoLimit /\ fetched >= l

(***************************************************************************)
(* pull_official.py                                                        *)
(***************************************************************************)
\* Official_sync_timestamp without the full_sync branch
Official_sync_timestamp_IgnoresFull(full, since, st) ==
    IF since # NoTime THEN since
    ELSE IF st.last_sync # NoTime THEN st.last_sync
    ELSE NoTime

\* "Determine sync mode"
Official_sync_timestamp(full, since, st) ==
    IF full THEN NoTime
    ELSE IF since # NoTime THEN since
    ELSE IF st.last_sync # NoTime THEN st.last_sync
    ELSE NoTime

\* Official_list_servers never sending the cursor
Official_list_servers_NoCursor(c, since) ==
    [kind |-> "list",
     cursor |-> None,
     updated_since |-> IF since # NoTime THEN since ELSE NoTime,
     page |-> 0]

\* the query parameters list_servers sends: a falsy cursor or updated_since
\* is left out of the request
Official_list_servers(c, since) ==
    [kind |-> "list",
     cursor |-> IF c # None THEN c ELSE None,
     updated_since |-> IF since # NoTime THEN since ELSE NoTime,
     page |-> 0]

\* pull_servers up to the first client.list_servers
OfficialStart ==
    /\ source = "official"
    /\ pc \in {"idle", "done"}
    /\ runs < MaxRuns
    /\ runs' = runs + 1
    /\ \E f \in BOOLEAN, l \in 0..MaxLimit, s \in SinceArgs :
         /\ full_sync' = f
         /\ limit' = l
         /\ updated_since' = s
         /\ sync_timestamp' = Official_sync_timestamp(f, s, state)
         /\ request' = Official_list_servers(None, Official_sync_timestamp(f, s, state))
    /\ start_time' = clock
    /\ sync_start' = clock
    /\ servers_fetched' = 0
    /\ cursor' = None
    /\ servers' = 0
    /\ metadata' = None
    /\ nreq' = 1
    /\ first_req_at' = clock
    /\ prev_exit' = exit
    /\ exit' = "none"
    /\ pc' = "request"
    /\ UNCHANGED <<source, state, clock, has_key, page, total_pages, idx>>

\* `for server_data in servers`: the records saved when the loop is left.
\* i is the record at hand, failAt the record whose save_server raises and
\* stopAt the record during which a KeyboardInterrupt arrives (0: none).
RECURSIVE Official_save_loop(_, _, _, _, _, _)
Official_save_loop(i, n, fetched, l, failAt, stopAt) ==
    IF i > n THEN [fetched |-> fetched, how |-> "end"]
    ELSE IF i = stopAt THEN [fetched |-> fetched, how |-> "interrupt"]
    ELSE IF i = failAt THEN [fetched |-> fetched, how |-> "raise"]
    ELSE IF LimitReached(l, fetched + 1)
      THEN [fetched |-> fetched + 1, how |-> "break"]
    ELSE Official_save_loop(i + 1, n, fetched + 1, l, failAt, stopAt)

\* the answer to client.list_servers and the while body after it, up to the
\* next client.list_servers
OfficialResponse ==
    /\ source = "official"
    /\ pc = "request"
    /\ clock' = clock + 1
    /\ \/ \* the request raises (retries exhausted, or a client error)
          /\ exit' = "error"
          /\ pc' = "finally"
          /\ request' = NoRequest
          /\ UNCHANGED <<servers, metadata, servers_fetched, cursor, nreq>>
       \/ \E n \in 0..MaxPageLen,
             nc \in (IF nreq < MaxRequests THEN Cursors ELSE {}) \cup {None},
             failAt \in 0..MaxPageLen, stopAt \in 0..MaxPageLen :
            /\ failAt <= n /\ stopAt <= n
            /\ failAt = 0 \/ stopAt = 0
            /\ servers' = n
            /\ metadata' = nc
            /\ LET r == Official_save_loop(1, n, servers_fetched, limit,
                                           failAt, stopAt)
               IN  /\ servers_fetched' = r.fetched
                   /\ IF n = 0
                        THEN /\ exit' = "normal"
                             /\ pc' = "finally"
                             /\ request' = NoRequest
                             /\ UNCHANGED <<cursor, nreq>>
                      ELSE IF r.how \in {"raise", "interrupt"}
                        THEN /\ exit' = IF r.how = "raise" THEN "record_error"
                                        ELSE "interrupt"
                             /\ pc' = "finally"
                             /\ request' = NoRequest
                             /\ UNCHANGED <<cursor, nreq>>
                      ELSE IF LimitReached(limit, r.fetched)
                        THEN /\ exit' = "normal"
                             /\ pc' = "finally"
                             /\ request' = NoRequest
                             /\ UNCHANGED <<cursor, nreq>>
                      ELSE /\ cursor' = nc
                           /\ IF nc = None
                                THEN /\ exit' = "normal"
                                     /\ pc' = "finally"
                                     /\ request' = NoRequest
                                     /\ UNCHANGED nreq
                                ELSE /\ request' = Official_list_servers(nc, sync_timestamp)
                                     /\ nreq' = nreq + 1
                                     /\ UNCHANGED <<pc, exit>>
    /\ UNCHANGED <<source, state, runs, argVars, sync_timestamp, start_time,
                   sync_start, page, total_pages, idx, first_req_at, prev_exit>>

\* SyncState.add_sync_record
Official_add_sync_record(st, fetched, duration, now) ==
    [st EXCEPT !.sync_history =
        KeepLast(Append(@, [timestamp |-> now, servers_fetched |-> fetched,
                            duration_seconds |-> duration]), HISTORY_KEEP)]

\* Official_finally_state stamping last_sync when the run ends
Official_finally_state_StampAtEnd(st, fetched, start, c, begun, now) ==
    IF fetched > 0
      THEN Official_add_sync_record(
               [st EXCEPT !.last_sync = now, !.last_cursor = c],
               fetched, now - begun, now)
      ELSE st

\* Official_finally_state without the test of servers_fetched
Official_finally_state_Always(st, fetched, start, c, begun, now) ==
    Official_add_sync_record(
        [st EXCEPT !.last_sync = start, !.last_cursor = c],
        fetched, now - begun, now)

\* the finally block: "Update state" and state.save()
Official_finally_state(st, fetched, start, c, begun, now) ==
    IF fetched > 0
      THEN Official_add_sync_record(
               [st EXCEPT !.last_sync = start, !.last_cursor = c],
               fetched, now - begun, now)
      ELSE st

OfficialFinally ==
    /\ source = "official"
    /\ pc = "finally"
    /\ state' = Official_finally_state(state, servers_fetched, sync_start, cursor,
                                       start_time, clock)
    /\ pc' = "done"
    /\ UNCHANGED <<source, clock, runs, argVars, sync_timestamp, start_time,
                   sync_start, servers_fetched, cursor, page, total_pages,
                   servers, idx, metadata, request, nreq, first_req_at, exit, prev_exit>>

(***************************************************************************)
(* Both scripts: a KeyboardInterrupt while a request of the loop is in     *)
(* flight.                                                                 *)
(***************************************************************************)
Interrupt ==
    /\ pc = "request"
    /\ request.kind \in {"list", "get"}
    /\ exit' = "interrupt"
    /\ pc' = "finally"
    /\ request' = NoRequest
    /\ UNCHANGED <<source, state, clock, runs, argVars, sync_timestamp,
                   start_time, sync_start, servers_fetched, cursor, page,
                   total_pages, servers, idx, metadata, nreq, first_req_at, prev_exit>>

(***************************************************************************)
(* pull_smithery.py                                                        *)
(***************************************************************************)
\* pagination.get("totalPages", 1): tp is <<>> when the probe's answer has no
\* totalPages
Smithery_total_pages(tp) == IF tp = <<>> THEN 1 ELSE tp[1]

ProbeAnswers == {<<>>} \cup {<<n>> : n \in 0..MaxPages}

\* Smithery_loop_continues going one page past the total
Smithery_loop_continues_OnePastEnd(p, tp) == p <= tp + 1

\* Smithery_loop_continues leaving the loop one page before the total
Smithery_loop_continues_StopsEarly(p, tp) == p < tp

\* `while page <= total_pages`
Smithery_loop_continues(p, tp) == p <= tp

\* the query parameters of client.list_servers(page, page_size)
Smithery_list_servers(kind, p) ==
    [kind |-> kind, cursor |-> None, updated_since |-> NoTime, page |-> p]

\* client.get_server(qualified_name) for the record at index i of the page
Smithery_get_server(p) ==
    [kind |-> "get", cursor |-> None, updated_since |-> NoTime, page |-> p]

\* Smithery_return_0 running the finally block all the same
Smithery_return_0_ThroughFinally(how) ==
    /\ pc' = "finally"
    /\ exit' = how
    /\ request' = NoRequest

\* `return 0` before the try statement
Smithery_return_0(how) ==
    /\ pc' = "done"
    /\ exit' = how
    /\ request' = NoRequest

\* pull_servers up to the page-count probe list_servers(page=1, page_size=1)
SmitheryStart ==
    /\ source = "smithery"
    /\ pc \in {"idle", "done"}
    /\ runs < MaxRuns
    /\ runs' = runs + 1
    /\ \E l \in 0..MaxLimit : limit' = l
    /\ servers_fetched' = 0
    /\ servers' = 0
    /\ idx' = 0
    /\ nreq' = 0
    /\ first_req_at' = NoTime
    /\ \/ \* no API key: return 0
          /\ has_key' = FALSE
          /\ Smithery_return_0("no_key")
          /\ UNCHANGED start_time
       \/ /\ has_key' = TRUE
          /\ start_time' = clock
          /\ request' = Smithery_list_servers("probe", 1)
          /\ pc' = "request"
          /\ exit' = "none"
    /\ UNCHANGED <<source, state, clock, full_sync, updated_since,
                   sync_timestamp, sync_start, cursor, page, total_pages,
                   metadata, prev_exit>>

\* the loop, from a `while page <= total_pages` test to the next request
Smithery_while(p, tp, now) ==
    IF Smithery_loop_continues(p, tp)
      THEN /\ request' = Smithery_list_servers("list", p)
           /\ nreq' = nreq + 1
           /\ first_req_at' = IF nreq = 0 THEN now ELSE first_req_at
           /\ pc' = "request"
           /\ UNCHANGED exit
      ELSE /\ request' = NoRequest
           /\ pc' = "finally"
           /\ exit' = "normal"
           /\ UNCHANGED <<nreq, first_req_at>>

\* the answer to the probe, sync_start, page = 1
SmitheryProbeResponse ==
    /\ source = "smithery"
    /\ pc = "request"
    /\ request.kind = "probe"
    /\ clock' = clock + 1
    /\ \/ \* the probe raises: return 0
          /\ Smithery_return_0("probe_failed")
          /\ UNCHANGED <<sync_start, page, total_pages, nreq, first_req_at>>
       \/ \E tp \in ProbeAnswers :
            /\ total_pages' = Smithery_total_pages(tp)
            /\ sync_start' = clock + 1
            /\ page' = 1
            /\ Smithery_while(1, Smithery_total_pages(tp), clock + 1)
    /\ UNCHANGED <<source, state, runs, argVars, sync_timestamp, start_time,
                   servers_fetched, cursor, servers, idx, metadata,
                   prev_exit>>

\* the answer to client.list_servers(page) and `if not servers: break`
SmitheryListResponse ==
    /\ source = "smithery"
    /\ pc = "request"
    /\ request.kind = "list"
    /\ clock' = clock + 1
    /\ \/ \* the request raises: nothing catches it, the finally block runs
          /\ exit' = "error"
          /\ pc' = "finally"
          /\ request' = NoRequest
          /\ UNCHANGED <<servers, idx>>
       \/ \E n \in 0..MaxPageLen :
            /\ servers' = n
            /\ IF n = 0
                 THEN /\ pc' = "finally"
                      /\ exit' = "normal"
                      /\ request' = NoRequest
                      /\ idx' = 0
                 ELSE /\ request' = Smithery_get_server(page)
                      /\ idx' = 1
                      /\ UNCHANGED <<pc, exit>>
    /\ UNCHANGED <<source, state, runs, argVars, sync_timestamp, start_time,
                   sync_start, servers_fetched, cursor, page, total_pages,
                   metadata, nreq, first_req_at, prev_exit>>

\* the rest of an iteration of `for server_basic in servers` that did not
\* break: the next record, or the end of the while body
Smithery_next_record ==
    IF idx < servers
      THEN /\ idx' = idx + 1
           /\ request' = Smithery_get_server(page)
           /\ UNCHANGED <<pc, exit, page, nreq, first_req_at>>
      ELSE /\ page' = page + 1
           /\ UNCHANGED idx
           /\ Smithery_while(page + 1, total_pages, clock)

\* the answer to client.get_server and the rest of the try block
SmitheryGetResponse ==
    /\ source = "smithery"
    /\ pc = "request"
    /\ request.kind = "get"
    /\ \/ \* get_server or save_server raises: logged, the loop goes on
          /\ UNCHANGED servers_fetched
          /\ Smithery_next_record
       \/ /\ servers_fetched' = servers_fetched + 1
          /\ IF LimitReached(limit, servers_fetched + 1)
               THEN /\ pc' = "finally"
                    /\ exit' = "normal"
                    /\ request' = NoRequest
                    /\ UNCHANGED <<idx, page, nreq, first_req_at>>
               ELSE Smithery_next_record
    /\ UNCHANGED <<source, state, clock, runs, argVars, sync_timestamp,
                   start_time, sync_start, cursor, total_pages, servers,
                   metadata, prev_exit>>

\* Smithery_finally_state leaving last_page as it was
Smithery_finally_state_KeepsPage(st, fetched, start, p, begun, now) ==
    [st EXCEPT !.last_sync = start,
               !.sync_history =
                  KeepLast(Append(@, [timestamp |-> start,
                                      servers_fetched |-> fetched,
                                      duration_seconds |-> now - begun]),
                           HISTORY_KEEP)]

\* the finally block: "Update state" and state.save()
Smithery_finally_state(st, fetched, start, p, begun, now) ==
    [st EXCEPT !.last_sync = start,
               !.last_page = p,
               !.sync_history =
                  KeepLast(Append(@, [timestamp |-> start,
                                      servers_fetched |-> fetched,
                                      duration_seconds |-> now - begun]),
                           HISTORY_KEEP)]

SmitheryFinally ==
    /\ source = "smithery"
    /\ pc = "finally"
    /\ state' = Smithery_finally_state(state, servers_fetched, sync_start, page,
                                       start_time, clock)
    /\ pc' = "done"
    /\ UNCHANGED <<source, clock, runs, argVars, sync_timestamp, start_time,
                   sync_start, servers_fetched, cursor, page, total_pages,
                   servers, idx, metadata, request, nreq, first_req_at, exit, prev_exit>>

(***************************************************************************)
(* The registry's count of a run of either script: what it has listed in   *)
(* the pages it sent, how many list requests of the loop it has answered,  *)
(* and how many records the script did not get or did not save. Each       *)
(* formula goes with the step of pull_servers it counts.                   *)
(***************************************************************************)
LogInit ==
    /\ listed = 0
    /\ lost = 0
    /\ pages = 0

\* a run starts
LogStart ==
    /\ listed' = 0
    /\ lost' = 0
    /\ pages' = 0

\* client.list_servers of the loop returns a page, or raises
LogPage ==
    IF exit' = "error" THEN UNCHANGED logVars
    ELSE /\ listed' = listed + servers'
         /\ pages' = pages + 1
         /\ lost' = IF exit' = "record_error" THEN lost + 1 ELSE lost

\* client.get_server and save_server of one record return, or one raises
LogRecord ==
    /\ lost' = IF servers_fetched' = servers_fetched THEN lost + 1 ELSE lost
    /\ UNCHANGED <<listed, pages>>

(***************************************************************************)
(* SyncStateStore: class SyncState of both fetch scripts, and the file it  *)
(* keeps. A file is missing, unreadable (open raises an IOError), made of  *)
(* bytes that do not decode as text, or text: the first `written` chunks   *)
(* of the json.dump of `doc`. save() opens the file for writing, which     *)
(* empties it, and the chunks reach the disk as the buffer is flushed; the *)
(* process can die at any point of that.                                   *)
(***************************************************************************)
MaxSaves == 2

\* the chunks json.dump(self.state, f, indent=2) writes for a state
DumpLen(st) == 3 + Len(st.sync_history)

Default_state(c) ==
    IF c = "official" THEN Official_default_state ELSE Smithery_default_state

MissingFile(c) == [kind |-> "missing", doc |-> Default_state(c), written |-> 0]

\* the file after a save() of st that ran to its end
CompleteFile(st) == [kind |-> "text", doc |-> st, written |-> DumpLen(st)]

\* json.load(f) returns the document: the text is all of a dump
IsValidJSON(f) == f.kind = "text" /\ f.written = DumpLen(f.doc)

\* SyncState.__init__ and _load: the handler catches json.JSONDecodeError and
\* IOError; the UnicodeDecodeError of f.read() is neither
SyncState_load(c, f) ==
    IF f.kind = "missing" THEN [status |-> "loaded", state |-> Default_state(c)]
    ELSE IF f.kind = "unreadable"
      THEN [status |-> "loaded", state |-> Default_state(c)]
    ELSE IF f.kind = "undecodable"
      THEN [status |-> "raised", state |-> Default_state(c)]
    ELSE IF IsValidJSON(f) THEN [status |-> "loaded", state |-> f.doc]
    ELSE [status |-> "loaded", state |-> Default_state(c)]

NoProcess(c) == [status |-> "none", state |-> Default_state(c)]
NoSave(c) == [old |-> MissingFile(c), new |-> Default_state(c), crashed |-> FALSE]

FileKinds == {"missing", "unreadable", "undecodable", "text"}

\* a state file as a run can find it, before any save() of the model
FoundFile(c, k) ==
    IF k = "text" THEN CompleteFile(Default_state(c))
    ELSE [kind |-> k, doc |-> Default_state(c), written |-> 0]

StoreInit ==
    /\ \E ko \in FileKinds, ks \in FileKinds :
         state_file = [c \in Clients |->
                          FoundFile(c, IF c = "official" THEN ko ELSE ks)]
    /\ sync_state = [c \in Clients |-> NoProcess(c)]
    /\ last_save = [c \in Clients |-> NoSave(c)]
    /\ saves = [c \in Clients |-> 0]

\* state = SyncState(STATE_FILE) of a new process
StoreLoad(c) ==
    /\ sync_state[c].status = "none"
    /\ sync_state' = [sync_state EXCEPT ![c] = SyncState_load(c, state_file[c])]
    /\ UNCHANGED <<state_file, last_save, saves>>

\* the process ends on the exception _load raised
StoreExit(c) ==
    /\ sync_state[c].status = "raised"
    /\ sync_state' = [sync_state EXCEPT ![c] = NoProcess(c)]
    /\ UNCHANGED <<state_file, last_save, saves>>

\* the state pull_servers' finally block has built when it calls save()
Store_finally_state(c, st, fetched) ==
    IF c = "official"
      THEN Official_finally_state(st, fetched, 1, "c1", 1, 1)
      ELSE Smithery_finally_state(st, fetched, 1, 1, 1, 1)

\* "Update state", then save() up to open(self.state_file, "w"): the file is
\* created or truncated
StoreSaveOpen(c) ==
    /\ sync_state[c].status = "loaded"
    /\ state_file[c].kind # "unreadable"
    /\ saves[c] < MaxSaves
    /\ saves' = [saves EXCEPT ![c] = @ + 1]
    /\ \E fetched \in 0..1 :
         LET new == Store_finally_state(c, sync_state[c].state, fetched) IN
         /\ sync_state' = [sync_state EXCEPT ![c] =
                              [status |-> "saving", state |-> new]]
         /\ last_save' = [last_save EXCEPT ![c] =
                              [old |-> state_file[c], new |-> new,
                               crashed |-> FALSE]]
         /\ state_file' = [state_file EXCEPT ![c] =
                              [kind |-> "text", doc |-> new, written |-> 0]]

\* json.dump: one more chunk of the text reaches the disk
StoreSaveWrite(c) ==
    /\ sync_state[c].status = "saving"
    /\ state_file[c].written < DumpLen(state_file[c].doc)
    /\ state_file' = [state_file EXCEPT ![c].written = @ + 1]
    /\ UNCHANGED <<sync_state, last_save, saves>>

\* the end of the with block, and of the process after it
StoreSaveClose(c) ==
    /\ sync_state[c].status = "saving"
    /\ state_file' = [state_file EXCEPT ![c] = CompleteFile(sync_state[c].state)]
    /\ sync_state' = [sync_state EXCEPT ![c] = NoProcess(c)]
    /\ UNCHANGED <<last_save, saves>>

\* the process dies during save()
StoreCrash(c) ==
    /\ sync_state[c].status = "saving"
    /\ sync_state' = [sync_state EXCEPT ![c] = NoProcess(c)]
    /\ last_save' = [last_save EXCEPT ![c].crashed = TRUE]
    /\ UNCHANGED <<state_file, saves>>

(***************************************************************************)
(* CapabilityIntrospector: what MCPIntrospector._make_jsonrpc_request does  *)
(* with a reply of status 200. An event-stream reply is a sequence of      *)
(* lines; a line is a data: line or not, and the payload of a data line is *)
(* text that is not JSON, a JSON number, array, string or object. One step *)
(* is one iteration of `for line in text.split("\n")`. Any other reply is  *)
(* one document, handled in one step.                                      *)
(***************************************************************************)
MaxLines == 3

Results == {1, 2}

\* the codes of two JSON-RPC errors: method not found, internal error
ErrorCodes == {-32601, -32603}

OtherLine == [data |-> FALSE, payload |-> "none", result |-> 0, code |-> 0]
DataLine(k) == [data |-> TRUE, payload |-> k, result |-> 0, code |-> 0]
ResultLine(r) == [data |-> TRUE, payload |-> "result", result |-> r, code |-> 0]
\* {"jsonrpc": "2.0", "id": 1, "error": {"code": c, "message": ...}}
ErrorLine(c) == [data |-> TRUE, payload |-> "error", result |-> 0, code |-> c]

\* "malformed": not JSON; "number": a JSON number or null; "array": a JSON
\* array; "string_result": a JSON string with the text result in it;
\* "object": an object with neither a result nor an error member
Payloads == {"malformed", "number", "array", "string_result", "object"}

Lines == {OtherLine} \cup {DataLine(k) : k \in Payloads}
           \cup {ResultLine(r) : r \in Results}
           \cup {ErrorLine(c) : c \in ErrorCodes}

\* the documents of a reply that is not an event stream
Bodies == Lines \ {OtherLine}

ContentTypes == {"text/event-stream", "application/json"}

RECURSIVE SeqsUpTo(_, _)
SeqsUpTo(S, n) ==
    IF n = 0 THEN {<<>>}
    ELSE LET shorter == SeqsUpTo(S, n - 1) IN
         shorter \cup {Append(s, x) : s \in {q \in shorter : Len(q) = n - 1},
                                      x \in S}

Scanning == [status |-> "scanning", result |-> 0, error |-> "none"]

SseInit ==
    /\ content_type \in ContentTypes
    /\ IF content_type = "text/event-stream"
         THEN stream \in SeqsUpTo(Lines, MaxLines) /\ body = None
         ELSE stream = <<>> /\ body \in Bodies
    /\ line_no = 0
    /\ reply = Scanning

\* the body of the loop for one line: json.loads raises a JSONDecodeError on
\* text that is not JSON (caught: continue); `"result" in data` raises a
\* TypeError on a number or null, is false on an array and on an object
\* without the member, and is true on a string that has the text in it, of
\* which data.get then raises an AttributeError
Sse_scan_line(l) ==
    IF ~l.data THEN Scanning
    ELSE IF l.payload = "malformed" THEN Scanning
    ELSE IF l.payload = "number"
      THEN [status |-> "raised", result |-> 0, error |-> "TypeError"]
    ELSE IF l.payload = "string_result"
      THEN [status |-> "raised", result |-> 0, error |-> "AttributeError"]
    ELSE IF l.payload = "result"
      THEN [status |-> "returned", result |-> l.result, error |-> "none"]
    ELSE Scanning

SseScanLine ==
    /\ content_type = "text/event-stream"
    /\ reply.status = "scanning"
    /\ line_no < Len(stream)
    /\ line_no' = line_no + 1
    /\ reply' = Sse_scan_line(stream[line_no + 1])
    /\ UNCHANGED <<content_type, stream, body>>

\* raise Exception("No valid JSON-RPC response in SSE stream")
SseNoResponse ==
    /\ content_type = "text/event-stream"
    /\ reply.status = "scanning"
    /\ line_no = Len(stream)
    /\ reply' = [status |-> "raised", result |-> 0, error |-> "no_response"]
    /\ UNCHANGED <<content_type, stream, body, line_no>>

\* f"RPC Error {error.get('code')}: {error.get('message')}"
RpcError(c) ==
    IF c = -32601 THEN "RPC Error -32601: Method not found"
    ELSE "RPC Error -32603: Internal error"

\* the else branch on a document d: response.json() raises on text that is
\* not JSON; `"error" in data` raises a TypeError on a number or null and is
\* false on an array and on a string without the text, of which data.get
\* then raises an AttributeError; an object without a result member gives {}
\* (result 0)
Json_reply(d) ==
    IF d.payload = "malformed"
      THEN [status |-> "raised", result |-> 0, error |-> "JSONDecodeError"]
    ELSE IF d.payload = "number"
      THEN [status |-> "raised", result |-> 0, error |-> "TypeError"]
    ELSE IF d.payload \in {"array", "string_result"}
      THEN [status |-> "raised", result |-> 0, error |-> "AttributeError"]
    ELSE IF d.payload = "error"
      THEN [status |-> "raised", result |-> 0, error |-> RpcError(d.code)]
    ELSE [status |-> "returned", result |-> d.result, error |-> "none"]

JsonBody ==
    /\ content_type # "text/event-stream"
    /\ reply.status = "scanning"
    /\ reply' = Json_reply(body)
    /\ UNCHANGED <<content_type, stream, body, line_no>>

(***************************************************************************)
(* CapabilityIntrospector: MCPIntrospector.introspect on one entity.       *)
(* A remote is its transport type, whether it has a url, and whether its   *)
(* headers can be read. A step is one iteration head of `for remote in     *)
(* remotes` (up to the first request to that remote), or the answer to the *)
(* request in flight and what follows it up to the next request. A         *)
(* non-empty list is named after the remote and the method that returned   *)
(* it; an error string after the method and the kind of failure.           *)
(***************************************************************************)
MaxRemotes == 2

Remote(type, url, headers_ok) ==
    [type |-> type, url |-> url, headers_ok |-> headers_ok]

RemoteKinds == {Remote("streamable-http", TRUE, TRUE),
                Remote("sse", TRUE, TRUE),
                Remote("stdio", TRUE, TRUE),
                Remote("streamable-http", FALSE, TRUE),
                Remote("streamable-http", TRUE, FALSE)}

Methods == <<"tools/list", "prompts/list", "resources/list">>

\* "list": a result with a non-empty list; "empty": a result with an empty
\* list or without one; "rpc_error": _make_jsonrpc_request raises an
\* Exception; "timeout": it raises asyncio.TimeoutError
Answers == {"list", "empty", "rpc_error", "timeout"}

ListOf(i, m) == <<[remote |-> i, method |-> m]>>
ErrorOf(m, a) == [method |-> m, what |-> a]

New_caps == [tools |-> <<>>, prompts |-> <<>>, resources |-> <<>>,
             errors |-> <<>>]

\* the result dict introspect starts with: error None is <<>>, the missing
\* endpoint_url is 0
New_result == [success |-> FALSE, tools |-> <<>>, prompts |-> <<>>,
               resources |-> <<>>, transport_used |-> None,
               endpoint_url |-> 0, error |-> <<>>, packages |-> FALSE]

ProbeInit ==
    /\ remotes \in SeqsUpTo(RemoteKinds, MaxRemotes) \ {<<>>}
    /\ packages \in BOOLEAN
    /\ remote_no = 0
    /\ query_no = 0
    /\ caps = New_caps
    /\ result = New_result
    /\ sent = <<>>
    /\ probe_pc = "for"

\* Probe_query with a failed query wiping the lists of its siblings
Probe_query_FailureClearsLists(c, i, m, a) ==
    IF a = "list"
      THEN IF m = "tools/list" THEN [c EXCEPT !.tools = ListOf(i, m)]
           ELSE IF m = "prompts/list" THEN [c EXCEPT !.prompts = ListOf(i, m)]
           ELSE [c EXCEPT !.resources = ListOf(i, m)]
    ELSE IF a = "empty" THEN c
    ELSE [New_caps EXCEPT !.errors = Append(c.errors, ErrorOf(m, a))]

\* one try block of _try_streamable_http: asyncio.TimeoutError is an
\* Exception, so `except Exception` takes a timeout as it takes any failure
Probe_query(c, i, m, a) ==
    IF a = "list"
      THEN IF m = "tools/list" THEN [c EXCEPT !.tools = ListOf(i, m)]
           ELSE IF m = "prompts/list" THEN [c EXCEPT !.prompts = ListOf(i, m)]
           ELSE [c EXCEPT !.resources = ListOf(i, m)]
    ELSE IF a = "empty" THEN c
    ELSE [c EXCEPT !.errors = Append(@, ErrorOf(m, a))]

\* errors[0] if len(errors) == 1 else "; ".join(errors[:2])
Probe_error(errors) ==
    IF Len(errors) <= 2 THEN errors ELSE SubSeq(errors, 1, 2)

\* Probe_endpoint taking only a non-empty tools list for a success
Probe_endpoint_ToolsOnly(r, c, i, type) ==
    IF c.tools # <<>>
      THEN [r EXCEPT !.tools = c.tools, !.prompts = c.prompts,
                     !.resources = c.resources, !.transport_used = type,
                     !.endpoint_url = i, !.success = TRUE]
      ELSE [r EXCEPT !.error = IF c.errors # <<>> THEN Probe_error(c.errors)
                                ELSE @,
                     !.endpoint_url = i]

\* `if caps.get("tools") or ...: ... return result` and its else branch
Probe_endpoint(r, c, i, type) ==
    IF c.tools # <<>> \/ c.prompts # <<>> \/ c.resources # <<>>
      THEN [r EXCEPT !.tools = c.tools, !.prompts = c.prompts,
                     !.resources = c.resources, !.transport_used = type,
                     !.endpoint_url = i, !.success = TRUE]
      ELSE [r EXCEPT !.error = IF c.errors # <<>> THEN Probe_error(c.errors)
                                ELSE @,
                     !.endpoint_url = i]

\* "For stdio packages": after the loop
Probe_classify(r, pkgs) ==
    IF pkgs /\ ~r.success
      THEN [r EXCEPT !.packages = TRUE,
                     !.error = <<ErrorOf("none", "stdio_only")>>]
      ELSE r

\* `for remote in remotes`: the next remote up to its first request, or the
\* end of the loop and the return
ProbeFor ==
    /\ probe_pc = "for"
    /\ IF remote_no = Len(remotes)
         THEN /\ result' = Probe_classify(result, packages)
              /\ probe_pc' = "returned"
              /\ UNCHANGED <<remote_no, query_no, caps, sent>>
         ELSE LET i == remote_no + 1
                  remote == remotes[i] IN
              /\ remote_no' = i
              /\ IF ~remote.url
                   THEN UNCHANGED <<query_no, caps, result, sent, probe_pc>>
                 ELSE IF ~remote.headers_ok
                   THEN /\ result' = [result EXCEPT !.error =
                                         <<ErrorOf("none", "exception")>>]
                        /\ UNCHANGED <<query_no, caps, sent, probe_pc>>
                 ELSE IF remote.type \notin {"streamable-http", "sse"}
                   THEN UNCHANGED <<query_no, caps, result, sent, probe_pc>>
                 ELSE /\ caps' = New_caps
                      /\ query_no' = 0
                      /\ sent' = Append(sent, [remote |-> i,
                                               method |-> Methods[1],
                                               answer |-> "pending"])
                      /\ probe_pc' = "query"
                      /\ UNCHANGED result
    /\ UNCHANGED <<remotes, packages>>

\* the answer to the request in flight, up to the next request
ProbeAnswer ==
    /\ probe_pc = "query"
    /\ \E a \in Answers :
         LET i == remote_no
             m == Methods[query_no + 1]
             c == Probe_query(caps, i, m, a)
             answered == [sent EXCEPT ![Len(sent)].answer = a] IN
         /\ caps' = c
         /\ query_no' = query_no + 1
         /\ IF query_no + 1 < Len(Methods)
              THEN /\ sent' = Append(answered,
                                     [remote |-> i,
                                      method |-> Methods[query_no + 2],
                                      answer |-> "pending"])
                   /\ UNCHANGED <<result, probe_pc>>
              ELSE /\ sent' = answered
                   /\ result' = Probe_endpoint(result, c, i, remotes[i].type)
                   /\ probe_pc' = IF result'.success THEN "returned" ELSE "for"
    /\ UNCHANGED <<remotes, packages, remote_no>>

(***************************************************************************)
(* CapabilityIntrospector: introspect_servers, the batch run over the      *)
(* server files. An entity is its id and whether it has remotes; what      *)
(* introspect does with one entity is its outcome here: a success, a       *)
(* failure, or an exception (of the probe, or of the writing of its        *)
(* outcome file). A step runs from one await to the next. The timestamps   *)
(* of the marks and the enriched export are left out.                      *)
(***************************************************************************)
MaxServers == 2
MaxBatchRuns == 3
MaxBatchLimit == 1

MAX_CONCURRENT == 10

ServerIds == 1..MaxServers

\* IntrospectionState._load() without a state file
Introspection_default_state ==
    [introspected |-> {}, failed |-> {},
     stats |-> [total_success |-> 0, total_failed |-> 0, total_skipped |-> 0]]

New_stats == [processed |-> 0, success |-> 0, failed |-> 0, skipped |-> 0]

BatchInit ==
    /\ servers_dir \in [ServerIds -> BOOLEAN]
    /\ introspection_dir = [id \in ServerIds |-> "none"]
    /\ introspection_state_file = Introspection_default_state
    /\ introspection_state = Introspection_default_state
    /\ force = FALSE
    /\ batch_limit = NoLimit
    /\ server_list = <<>>
    /\ batch_i = 0
    /\ tasks = <<>>
    /\ in_flight = {}
    /\ stats = New_stats
    /\ batch_pc = "idle"
    /\ batch_runs = 0
    /\ batch_exit = "none"

\* a run over one entity more than a batch holds
ManyServerIds == 1..(MAX_CONCURRENT + 1)

\* the server files of such a run: at most one entity is without remotes
BatchesInit ==
    /\ \E k \in {0} \cup ManyServerIds :
         servers_dir = [id \in ManyServerIds |-> id # k]
    /\ introspection_dir = [id \in ManyServerIds |-> "none"]
    /\ introspection_state_file = Introspection_default_state
    /\ introspection_state = Introspection_default_state
    /\ force = FALSE
    /\ batch_limit = NoLimit
    /\ server_list = <<>>
    /\ batch_i = 0
    /\ tasks = <<>>
    /\ in_flight = {}
    /\ stats = New_stats
    /\ batch_pc = "idle"
    /\ batch_runs = 0
    /\ batch_exit = "none"

mark_success(st, id) ==
    [st EXCEPT !.introspected = @ \cup {id},
               !.failed = @ \ {id},
               !.stats.total_success = @ + 1]

mark_failed(st, id) ==
    [st EXCEPT !.failed = @ \cup {id},
               !.stats.total_failed = @ + 1]

mark_skipped(st, id) == [st EXCEPT !.stats.total_skipped = @ + 1]

\* sorted(servers_dir.glob("*.json")) as a list of ids
RECURSIVE IdsFrom(_)
IdsFrom(id) ==
    IF id > Cardinality(DOMAIN servers_dir) THEN <<>>
    ELSE <<id>> \o IdsFrom(id + 1)

\* [s for s in servers if not state.is_introspected(s["server_id"])]
RECURSIVE NotIntrospected(_, _)
NotIntrospected(list, st) ==
    IF list = <<>> THEN <<>>
    ELSE IF Head(list) \in st.introspected THEN NotIntrospected(Tail(list), st)
    ELSE <<Head(list)>> \o NotIntrospected(Tail(list), st)

\* servers[:limit]
Limited(list, l) ==
    IF l # NoLimit /\ Len(list) > l THEN SubSeq(list, 1, l) ELSE list

\* `for server_entry in batch`: the entities without remotes are marked
\* skipped, the others become the tasks of the batch
RECURSIVE Batch_tasks(_, _, _)
Batch_tasks(list, k, last) ==
    IF k > last THEN [tasks |-> <<>>, skipped |-> <<>>]
    ELSE LET rest == Batch_tasks(list, k + 1, last) IN
         IF servers_dir[list[k]]
           THEN [rest EXCEPT !.tasks = <<list[k]>> \o @]
           ELSE [rest EXCEPT !.skipped = <<list[k]>> \o @]

RECURSIVE Mark_all_skipped(_, _)
Mark_all_skipped(st, ids) ==
    IF ids = <<>> THEN st
    ELSE Mark_all_skipped(mark_skipped(st, Head(ids)), Tail(ids))

\* the batch loop with servers[i:i + MAX_CONCURRENT + 1] as the batch
RECURSIVE Batch_loop_WiderWindow(_, _, _, _)
Batch_loop_WiderWindow(list, i, st, s) ==
    IF i >= Len(list)
      THEN [i |-> i, tasks |-> <<>>, state |-> st, stats |-> s, pc |-> "save"]
    ELSE LET last == IF i + MAX_CONCURRENT + 1 < Len(list)
                       THEN i + MAX_CONCURRENT + 1 ELSE Len(list)
             b == Batch_tasks(list, i + 1, last)
             st2 == Mark_all_skipped(st, b.skipped)
             s2 == [s EXCEPT !.skipped = @ + Len(b.skipped)] IN
         IF b.tasks # <<>>
           THEN [i |-> i, tasks |-> b.tasks, state |-> st2, stats |-> s2,
                 pc |-> "await"]
           ELSE Batch_loop_WiderWindow(list, i + MAX_CONCURRENT, st2, s2)

\* `for i in range(0, len(servers), MAX_CONCURRENT)` from i on, up to the
\* first await of a task or the end of the loop
RECURSIVE Batch_loop(_, _, _, _)
Batch_loop(list, i, st, s) ==
    IF i >= Len(list)
      THEN [i |-> i, tasks |-> <<>>, state |-> st, stats |-> s, pc |-> "save"]
    ELSE LET last == IF i + MAX_CONCURRENT < Len(list)
                       THEN i + MAX_CONCURRENT ELSE Len(list)
             b == Batch_tasks(list, i + 1, last)
             st2 == Mark_all_skipped(st, b.skipped)
             s2 == [s EXCEPT !.skipped = @ + Len(b.skipped)] IN
         IF b.tasks # <<>>
           THEN [i |-> i, tasks |-> b.tasks, state |-> st2, stats |-> s2,
                 pc |-> "await"]
           ELSE Batch_loop(list, i + MAX_CONCURRENT, st2, s2)

\* `await task` on the first of the tasks ts: introspector.introspect(...)
\* made a coroutine object, whose body begins to run when it is awaited
Awaited(ts) == IF ts = <<>> THEN {} ELSE {Head(ts)}

\* introspect_servers up to the first await; IntrospectionState is loaded
\* from the file, and without server files the run returns at once
BatchStart ==
    /\ batch_pc \in {"idle", "done"}
    /\ batch_runs < MaxBatchRuns
    /\ batch_runs' = batch_runs + 1
    /\ \E f \in BOOLEAN, l \in 0..MaxBatchLimit :
         LET st == introspection_state_file
             list == Limited(IF f THEN IdsFrom(1)
                             ELSE NotIntrospected(IdsFrom(1), st), l)
             b == Batch_loop(list, 0, st, New_stats) IN
         /\ force' = f
         /\ batch_limit' = l
         /\ server_list' = list
         /\ batch_i' = b.i
         /\ tasks' = b.tasks
         /\ in_flight' = Awaited(b.tasks)
         /\ introspection_state' = b.state
         /\ stats' = b.stats
         /\ batch_pc' = b.pc
    /\ batch_exit' = "none"
    /\ UNCHANGED <<servers_dir, introspection_dir, introspection_state_file>>

Outcomes_of_task == {"success", "failure", "probe_raises", "save_raises"}

\* the body of `for server_id, task in tasks` for the outcome o of the task
Batch_task_state(st, id, o) ==
    IF o = "success" THEN mark_success(st, id) ELSE mark_failed(st, id)

\* the body with an except clause that counts nothing
Batch_task_stats_RaiseUncounted(s, o) ==
    IF o = "success"
      THEN [s EXCEPT !.processed = @ + 1, !.success = @ + 1]
    ELSE IF o = "failure"
      THEN [s EXCEPT !.processed = @ + 1, !.failed = @ + 1]
    ELSE s

Batch_task_stats(s, o) ==
    IF o = "success"
      THEN [s EXCEPT !.processed = @ + 1, !.success = @ + 1]
    ELSE IF o = "failure"
      THEN [s EXCEPT !.processed = @ + 1, !.failed = @ + 1]
    ELSE IF o = "probe_raises"
      THEN [s EXCEPT !.processed = @ + 1, !.failed = @ + 1]
    ELSE [s EXCEPT !.processed = @ + 2, !.failed = @ + 1]

\* save_introspection_result(result, ...): not reached when the probe
\* raises, and nothing is (re)written when the writing raises
Batch_task_file(dir, id, o) ==
    IF o = "success" THEN [dir EXCEPT ![id] = "success"]
    ELSE IF o = "failure" THEN [dir EXCEPT ![id] = "failure"]
    ELSE dir

\* the end of `await task` and the rest of the loop up to the next await
BatchAwait ==
    /\ batch_pc = "await"
    /\ \E o \in Outcomes_of_task :
         LET id == Head(tasks)
             st == Batch_task_state(introspection_state, id, o)
             s == Batch_task_stats(stats, o) IN
         /\ introspection_dir' = Batch_task_file(introspection_dir, id, o)
         /\ IF Tail(tasks) # <<>>
              THEN /\ tasks' = Tail(tasks)
                   /\ introspection_state' = st
                   /\ stats' = s
                   /\ UNCHANGED <<batch_i, batch_pc>>
              ELSE LET b == Batch_loop(server_list, batch_i + MAX_CONCURRENT,
                                       st, s) IN
                   /\ tasks' = b.tasks
                   /\ introspection_state' = b.state
                   /\ stats' = b.stats
                   /\ batch_i' = b.i
                   /\ batch_pc' = b.pc
    /\ in_flight' = Awaited(tasks')
    /\ UNCHANGED <<servers_dir, introspection_state_file, force, batch_limit,
                   server_list, batch_runs, batch_exit>>

\* "Save state": state.save()
BatchSave ==
    /\ batch_pc = "save"
    /\ introspection_state_file' = introspection_state
    /\ batch_pc' = "done"
    /\ batch_exit' = "normal"
    /\ UNCHANGED <<servers_dir, introspection_dir, introspection_state, force,
                   batch_limit, server_list, batch_i, tasks, in_flight, stats, batch_runs>>

\* a KeyboardInterrupt or a cancellation while a task is awaited: it is not
\* an Exception, nothing in introspect_servers or main catches it
BatchInterrupt ==
    /\ batch_pc = "await"
    /\ batch_pc' = "done"
    /\ batch_exit' = "interrupt"
    /\ in_flight' = {}
    /\ UNCHANGED <<servers_dir, introspection_dir, introspection_state_file,
                   introspection_state, force, batch_limit, server_list, batch_i,
                   tasks,
                   stats, batch_runs>>

(***************************************************************************)
(* IdentityNormalizer: normalize_server_name. A name is a sequence of      *)
(* tokens: a token is a word of letters, a digit, or one of the characters *)
(* - _ / : . and the blank; no word is a concatenation of other tokens, so *)
(* a name is one sequence only. The regular expressions and endswith are   *)
(* computed on the tokens as the code computes them on the characters.     *)
(***************************************************************************)
MaxNameLen == 4

Tokens == {"x", "MCP", "mcp", "server", "v", "2", ".", "-", "_", "/", ":", " "}

\* the two names of the examples
FooBar ==
    <<"Foo", "-", "Bar", "-", "MCP", "-", "Server", "-", "v", "2", ".", "1">>
AcmeSearch == <<"acme", "_", "search", "_", "server">>

Digits == {"1", "2"}

\* str.lower() on one token
Lower(t) ==
    CASE t = "MCP" -> "mcp"
      [] t = "Foo" -> "foo"
      [] t = "Bar" -> "bar"
      [] t = "Server" -> "server"
      [] t = "X" -> "x"
      [] OTHER -> t

LowerAll(s) == [k \in 1..Len(s) |-> Lower(s[k])]

\* str.strip()
RECURSIVE LStrip(_)
LStrip(s) == IF s # <<>> /\ Head(s) = " " THEN LStrip(Tail(s)) ELSE s

RECURSIVE RStrip(_)
RStrip(s) ==
    IF s # <<>> /\ s[Len(s)] = " " THEN RStrip(SubSeq(s, 1, Len(s) - 1)) ELSE s

Strip(s) == RStrip(LStrip(s))

\* \d+ at the head of s: what is left of s after it
RECURSIVE DropDigits(_)
DropDigits(s) ==
    IF s # <<>> /\ Head(s) \in Digits THEN DropDigits(Tail(s)) ELSE s

\* \d+(\.\d+)*$ matches the whole of s
RECURSIVE DottedNumbers(_)
DottedNumbers(s) ==
    /\ s # <<>>
    /\ Head(s) \in Digits
    /\ LET r == DropDigits(s) IN
       \/ r = <<>>
       \/ Head(r) = "." /\ DottedNumbers(Tail(r))

\* [:\-_]v?\d+(\.\d+)*$ matches the whole of s
MatchesVersion(s) ==
    /\ s # <<>>
    /\ Head(s) \in {":", "-", "_"}
    /\ LET r == Tail(s) IN
       DottedNumbers(IF r # <<>> /\ Head(r) = "v" THEN Tail(r) ELSE r)

\* re.sub(r'[:\-_]v?\d+(\.\d+)*$', '', name): the leftmost match is removed
StripVersion(s) ==
    LET starts == {k \in 1..Len(s) : MatchesVersion(SubSeq(s, k, Len(s)))} IN
    IF starts = {} THEN s
    ELSE SubSeq(s, 1, (CHOOSE k \in starts : \A j \in starts : k <= j) - 1)

Separators == {"-", "_", "/"}

RECURSIVE DropSeparators(_)
DropSeparators(s) ==
    IF s # <<>> /\ Head(s) \in Separators THEN DropSeparators(Tail(s)) ELSE s

\* re.sub(r'[-_/]+', '-', name)
RECURSIVE Collapse(_)
Collapse(s) ==
    IF s = <<>> THEN <<>>
    ELSE IF Head(s) \in Separators
      THEN <<"-">> \o Collapse(DropSeparators(Tail(s)))
    ELSE <<Head(s)>> \o Collapse(Tail(s))

\* ['-mcp', '-server', '-mcp-server']
SUFFIXES == <<(<<"-", "mcp">>), (<<"-", "server">>),
              (<<"-", "mcp", "-", "server">>)>>

\* name.endswith(suffix)
EndsWith(s, suffix) ==
    /\ Len(s) >= Len(suffix)
    /\ SubSeq(s, Len(s) - Len(suffix) + 1, Len(s)) = suffix

\* `for suffix in [...]: if name.endswith(suffix): name = name[:-len(suffix)]`
RECURSIVE Strip_suffixes(_, _)
Strip_suffixes(s, suffixes) ==
    IF suffixes = <<>> THEN s
    ELSE LET suffix == Head(suffixes) IN
         Strip_suffixes(IF EndsWith(s, suffix)
                          THEN SubSeq(s, 1, Len(s) - Len(suffix)) ELSE s,
                        Tail(suffixes))

normalize_server_name(n) ==
    Strip_suffixes(Collapse(StripVersion(Strip(LowerAll(n)))), SUFFIXES)

NormInit ==
    /\ name \in SeqsUpTo(Tokens, MaxNameLen) \cup {FooBar, AcmeSearch}
    /\ normalized = [returned |-> FALSE, value |-> <<>>]

Normalize ==
    /\ ~normalized.returned
    /\ normalized' = [returned |-> TRUE, value |-> normalize_server_name(name)]
    /\ UNCHANGED name

(***************************************************************************)
(* DeduplicationEngine and UnifiedRecordBuilder: merge_all_registries from *)
(* the loaded records on. A record is what load_official_servers or        *)
(* load_smithery_servers makes of a server file; a capability is its       *)
(* name, a description is its length. The fields that are copied and never *)
(* read (version, icon_url, packages, ...) and the timestamps are left     *)
(* out. A step is one of: deduplicate_servers, the unified list and its    *)
(* sort, the index and the files.                                          *)
(***************************************************************************)
MaxRecords == 2

INDEX_DESCRIPTION == 200

\* the names of the server files, in the order of Python's str comparison
\* ("X-mcp" < "x" < "y"); the first two have one normalized name
MergeNames == <<(<<"X", "-", "mcp">>), (<<"x">>), (<<"y">>)>>

NameRank(n) == CHOOSE k \in 1..Len(MergeNames) : MergeNames[k] = n

ToolLists == {<<>>, <<"t1">>, <<"t1", "t2">>}

NoDescription == [text |-> FALSE, len |-> 0]
Description(n) == [text |-> TRUE, len |-> n]

\* what else a server file (and for official, its introspection) gives
Official_extras ==
    {[prompts |-> <<>>, resources |-> <<>>, remote_endpoint |-> None,
      description |-> NoDescription],
     [prompts |-> <<"p1">>, resources |-> <<>>, remote_endpoint |-> "url",
      description |-> Description(250)],
     [prompts |-> <<>>, resources |-> <<"r1">>, remote_endpoint |-> "url",
      description |-> Description(150)]}

Smithery_extras == {e \in Official_extras : e.resources = <<>>}

Official_record(n, tools, latest, e) ==
    [source |-> "official", source_priority |-> 1, name |-> n,
     description |-> e.description, remote_endpoint |-> e.remote_endpoint,
     tools |-> tools, tool_count |-> Len(tools), prompts |-> e.prompts,
     resources |-> e.resources, is_latest |-> latest,
     _normalized_name |-> normalize_server_name(n)]

Smithery_record(n, tools, e) ==
    [source |-> "smithery", source_priority |-> 2, name |-> n,
     description |-> e.description, remote_endpoint |-> e.remote_endpoint,
     tools |-> tools, tool_count |-> Len(tools), prompts |-> <<>>,
     resources |-> <<>>, is_latest |-> TRUE,
     _normalized_name |-> normalize_server_name(n)]

Names == {MergeNames[k] : k \in 1..Len(MergeNames)}

Official_records ==
    {Official_record(n, t, l, e) :
       n \in Names, t \in ToolLists, l \in BOOLEAN, e \in Official_extras}

Smithery_records ==
    {Smithery_record(n, t, e) :
       n \in Names, t \in ToolLists, e \in Smithery_extras}

\* all_servers after the loop over ["official", "smithery"]; the official
\* files of one name are its versions, a smithery file is named after its
\* qualifiedName, so no two have one name
MergeInit ==
    /\ \E o \in SeqsUpTo(Official_records, MaxRecords) :
         \E m \in SeqsUpTo(Smithery_records, MaxRecords - Len(o)) :
           /\ \A i, j \in 1..Len(m) : m[i].name = m[j].name => i = j
           /\ all_servers = o \o m
    /\ deduplicated = <<>>
    /\ unified = <<>>
    /\ index = <<>>
    /\ merge_pc = "loaded"
    /\ unified_files = {}
    /\ previous = [all_servers |-> <<>>, unified |-> <<>>]
    /\ merge_runs = 1

\* the values of field f of the records of list, each once, in the order of
\* their first occurrence: the keys of the defaultdict
RECURSIVE Keys(_, _)
Keys(list, f) ==
    IF list = <<>> THEN <<>>
    ELSE LET front == Keys(SubSeq(list, 1, Len(list) - 1), f)
             v == list[Len(list)][f] IN
         IF \E k \in 1..Len(front) : front[k] = v THEN front
         ELSE Append(front, v)

\* by_name[key]
Group(list, key) ==
    LET Member(s) == s._normalized_name = key IN SelectSeq(list, Member)

\* a key that leaves the tool count out
Dedupe_key_PriorityFirst(s) ==
    <<s.source_priority, s.source_priority, IF s.is_latest THEN 1 ELSE 0>>

\* key=lambda s: (tool_count, source_priority, 1 if is_latest else 0)
Dedupe_key(s) ==
    <<s.tool_count, s.source_priority, IF s.is_latest THEN 1 ELSE 0>>

\* a < b on tuples of three
TupleLess(a, b) ==
    \/ a[1] < b[1]
    \/ a[1] = b[1] /\ a[2] < b[2]
    \/ a[1] = b[1] /\ a[2] = b[2] /\ a[3] < b[3]

\* max(group, key=...): the first of the greatest
RECURSIVE Max_by_key(_, _)
Max_by_key(best, rest) ==
    IF rest = <<>> THEN best
    ELSE Max_by_key(IF TupleLess(Dedupe_key(best), Dedupe_key(Head(rest)))
                      THEN Head(rest) ELSE best,
                    Tail(rest))

\* the marks with the winner's own source in place of the group's sources
Dedupe_winner_OwnSource(best, group) ==
    [source |-> best.source, source_priority |-> best.source_priority,
     name |-> best.name, description |-> best.description,
     remote_endpoint |-> best.remote_endpoint, tools |-> best.tools,
     tool_count |-> best.tool_count, prompts |-> best.prompts,
     resources |-> best.resources, is_latest |-> best.is_latest,
     _normalized_name |-> best._normalized_name,
     _sources |-> <<best.source>>,
     _duplicate_count |-> Len(group)]

\* best["_sources"] = list(by_source.keys());
\* best["_duplicate_count"] = len(group)
Dedupe_winner(best, group) ==
    [source |-> best.source, source_priority |-> best.source_priority,
     name |-> best.name, description |-> best.description,
     remote_endpoint |-> best.remote_endpoint, tools |-> best.tools,
     tool_count |-> best.tool_count, prompts |-> best.prompts,
     resources |-> best.resources, is_latest |-> best.is_latest,
     _normalized_name |-> best._normalized_name,
     _sources |-> Keys(group, "source"),
     _duplicate_count |-> Len(group)]

deduplicate_servers(list) ==
    LET names == Keys(list, "_normalized_name") IN
    [k \in 1..Len(names) |->
       LET group == Group(list, names[k]) IN
       IF Len(group) = 1 THEN group[1]
       ELSE Dedupe_winner(Max_by_key(Head(group), Tail(group)), group)]

Deduplicate ==
    /\ merge_pc = "loaded"
    /\ deduplicated' = deduplicate_servers(all_servers)
    /\ merge_pc' = "deduplicated"
    /\ UNCHANGED <<all_servers, unified, index, unified_files, previous,
                   merge_runs>>

\* a schema without the prompts and the resources
create_unified_schema_ToolsOnly(server) ==
    [id |-> server.name, name |-> server.name,
     description |-> server.description,
     tools |-> server.tools, tool_count |-> server.tool_count,
     prompts |-> <<>>, resources |-> <<>>,
     remote_endpoint |-> server.remote_endpoint,
     sources |-> IF "_sources" \in DOMAIN server THEN server._sources
                 ELSE <<server.source>>,
     primary_source |-> server.source, is_latest |-> server.is_latest,
     has_remote |-> server.remote_endpoint \notin {None, ""},
     has_tools |-> server.tool_count > 0,
     tool_names |-> server.tools]

\* bool(remote_endpoint) is false for None and for the empty string; a tool
\* is its name, so tool_names is the list itself
create_unified_schema(server) ==
    [id |-> server.name, name |-> server.name,
     description |-> server.description,
     tools |-> server.tools, tool_count |-> server.tool_count,
     prompts |-> server.prompts, resources |-> server.resources,
     remote_endpoint |-> server.remote_endpoint,
     sources |-> IF "_sources" \in DOMAIN server THEN server._sources
                 ELSE <<server.source>>,
     primary_source |-> server.source, is_latest |-> server.is_latest,
     has_remote |-> server.remote_endpoint \notin {None, ""},
     has_tools |-> server.tool_count > 0,
     tool_names |-> server.tools]

\* key=lambda s: (-s["tool_count"], s["name"]): a sorts before b
Sorts_before(a, b) ==
    \/ a.tool_count > b.tool_count
    \/ a.tool_count = b.tool_count /\ NameRank(a.name) < NameRank(b.name)

\* x put into a sorted list, behind what does not sort after it
RECURSIVE Insert_sorted(_, _)
Insert_sorted(list, x) ==
    IF list = <<>> THEN <<x>>
    ELSE IF Sorts_before(x, Head(list)) THEN <<x>> \o list
    ELSE <<Head(list)>> \o Insert_sorted(Tail(list), x)

\* unified.sort(...): a stable sort
RECURSIVE Sort_unified(_)
Sort_unified(list) ==
    IF list = <<>> THEN <<>>
    ELSE Insert_sorted(Sort_unified(SubSeq(list, 1, Len(list) - 1)),
                       list[Len(list)])

BuildUnified ==
    /\ merge_pc = "deduplicated"
    /\ unified' = Sort_unified([k \in 1..Len(deduplicated) |->
                                 create_unified_schema(deduplicated[k])])
    /\ merge_pc' = "unified"
    /\ UNCHANGED <<all_servers, deduplicated, index, unified_files, previous,
                   merge_runs>>

\* s["description"][:200] if s["description"] else None
Index_description(d) ==
    IF ~d.text \/ d.len = 0 THEN NoDescription
    ELSE IF d.len > INDEX_DESCRIPTION THEN Description(INDEX_DESCRIPTION)
    ELSE d

\* one entry of index["servers"]
Index_entry(s) ==
    [id |-> s.id, name |-> s.name,
     description |-> Index_description(s.description),
     tool_count |-> s.tool_count, sources |-> s.sources,
     has_remote |-> s.has_remote]

\* server["name"].replace("/", "__").replace(":", "__")
Safe_name(n) ==
    [k \in 1..Len(n) |-> IF n[k] \in {"/", ":"} THEN "__" ELSE n[k]]

\* `for server in unified`: open(servers_dir / f"{safe_name}.json", "w")
\* writes the file of that name anew; the other files of the directory stay
RECURSIVE Write_server_files(_, _)
Write_server_files(files, list) ==
    IF list = <<>> THEN files
    ELSE LET f == Safe_name(Head(list).name) IN
         Write_server_files({e \in files : e.file # f}
                              \cup {[file |-> f, server |-> Head(list)]},
                            Tail(list))

\* index.json, the server files and the exports; index.json and the
\* exports are single files, written anew with the unified records as they
\* are
WriteIndex ==
    /\ merge_pc = "unified"
    /\ index' = [k \in 1..Len(unified) |-> Index_entry(unified[k])]
    /\ unified_files' = Write_server_files(unified_files, unified)
    /\ merge_pc' = "done"
    /\ UNCHANGED <<all_servers, deduplicated, unified, previous, merge_runs>>

MaxMergeRuns == 2

\* the same files read in another order, each source's before the next's
Reorderings(list) ==
    {l \in {[k \in 1..Len(list) |-> list[p[k]]] :
              p \in Permutations(1..Len(list))} :
       \A i, j \in 1..Len(l) :
         i < j => ~(l[i].source = "smithery" /\ l[j].source = "official")}

\* the record of a server whose tools are now t
With_tools(r, t) == [r EXCEPT !.tools = t, !.tool_count = Len(t)]

\* the same servers with other tools (of a new introspection outcome, or of
\* the registry)
Retooled(list) ==
    {[k \in 1..Len(list) |-> With_tools(list[k], ts[k])] :
       ts \in [1..Len(list) -> ToolLists]}

\* merge_all_registries is run again, over the files as they are then
MergeAgain ==
    /\ merge_pc = "done"
    /\ merge_runs < MaxMergeRuns
    /\ merge_runs' = merge_runs + 1
    /\ previous' = [all_servers |-> all_servers, unified |-> unified]
    /\ all_servers' \in Reorderings(all_servers) \cup Retooled(all_servers)
    /\ deduplicated' = <<>>
    /\ unified' = <<>>
    /\ index' = <<>>
    /\ merge_pc' = "loaded"
    /\ UNCHANGED unified_files

(***************************************************************************)
(* The file name of an entity's outcome, as introspect_servers makes it to *)
(* save the outcome and as build_enriched_export and load_official_servers *)
(* make it to look the outcome up. A name and a version are sequences of   *)
(* tokens; a server file has a version or has none.                        *)
(***************************************************************************)
MaxIdLen == 3

IdTokens == {"a", "/", ":"}
VersionValues == {<<>>, <<"1">>, <<"unknown">>, <<"None">>}
NoVersion == [present |-> FALSE, value |-> <<>>]
Versions == {NoVersion} \cup {[present |-> TRUE, value |-> v] : v \in VersionValues}

NoKeys == [made |-> FALSE, save |-> <<>>, enriched |-> <<>>, merged |-> <<>>]

KeyInit ==
    /\ server_json \in [name : SeqsUpTo(IdTokens, MaxIdLen), version : Versions]
    /\ outcome_keys = NoKeys

\* server.get("version", default)
Get_version(server, default) ==
    IF server.version.present THEN server.version.value ELSE default

\* .replace("/", "__").replace(":", "__")
Safe_id(id) ==
    [k \in 1..Len(id) |-> IF id[k] \in {"/", ":"} THEN "__" ELSE id[k]]

\* load_server_files: "server_id": f"{name}:{server.get('version', 'unknown')}"
Load_server_id(server) ==
    server.name \o <<":">> \o Get_version(server, <<"unknown">>)

\* save_introspection_result(result, INTROSPECTION_DIR, server_id): safe_id
Save_introspection_key(server) == Safe_id(Load_server_id(server))

\* build_enriched_export: server_id = f"{name}:{version}" and safe_id
Enriched_export_key(server) ==
    Safe_id(server.name \o <<":">> \o Get_version(server, <<>>))

\* load_official_servers: safe_id = f"{server_name}:{version}".replace(...)
Load_official_key(server) ==
    Safe_id(server.name \o <<":">> \o Get_version(server, <<>>))

\* the three file names for server_json
MakeKeys ==
    /\ ~outcome_keys.made
    /\ outcome_keys' = [made |-> TRUE,
                        save |-> Save_introspection_key(server_json),
                        enriched |-> Enriched_export_key(server_json),
                        merged |-> Load_official_key(server_json)]
    /\ UNCHANGED server_json

(***************************************************************************)
(* The specifications.                                                     *)
(***************************************************************************)
\* the fetch scripts not run
FetchIdle ==
    /\ source = "official"
    /\ FetchInit

\* SyncState not used
StoreIdle ==
    /\ state_file = NotRun
    /\ sync_state = NotRun
    /\ last_save = NotRun
    /\ saves = NotRun

\* no event-stream reply
SseIdle ==
    /\ content_type = NotRun
    /\ body = NotRun
    /\ stream = NotRun
    /\ line_no = NotRun
    /\ reply = NotRun

\* introspect not called
ProbeIdle ==
    /\ remotes = NotRun
    /\ packages = NotRun
    /\ remote_no = NotRun
    /\ query_no = NotRun
    /\ caps = NotRun
    /\ result = NotRun
    /\ sent = NotRun
    /\ probe_pc = NotRun

\* introspect_servers not run
BatchIdle ==
    /\ servers_dir = NotRun
    /\ introspection_dir = NotRun
    /\ introspection_state_file = NotRun
    /\ introspection_state = NotRun
    /\ force = NotRun
    /\ batch_limit = NotRun
    /\ server_list = NotRun
    /\ batch_i = NotRun
    /\ tasks = NotRun
    /\ in_flight = NotRun
    /\ stats = NotRun
    /\ batch_pc = NotRun
    /\ batch_runs = NotRun
    /\ batch_exit = NotRun

\* normalize_server_name not called
NormIdle ==
    /\ name = NotRun
    /\ normalized = NotRun

\* merge_all_registries not run
MergeIdle ==
    /\ all_servers = NotRun
    /\ deduplicated = NotRun
    /\ unified = NotRun
    /\ index = NotRun
    /\ merge_pc = NotRun
    /\ unified_files = NotRun
    /\ previous = NotRun
    /\ merge_runs = NotRun

\* the registry's count of a run is not kept
LogIdle ==
    /\ listed = NotRun
    /\ lost = NotRun
    /\ pages = NotRun

\* no file name of an outcome made
KeyIdle ==
    /\ server_json = NotRun
    /\ outcome_keys = NotRun

InitRetry ==
    /\ rq = [c \in Clients |-> NewCall]
    /\ FetchIdle
    /\ StoreIdle
    /\ SseIdle
    /\ ProbeIdle
    /\ BatchIdle
    /\ NormIdle
    /\ MergeIdle
    /\ LogIdle
    /\ KeyIdle

InitFetch ==
    /\ rq = NotRun
    /\ FetchInit
    /\ StoreIdle
    /\ SseIdle
    /\ ProbeIdle
    /\ BatchIdle
    /\ NormIdle
    /\ MergeIdle
    /\ LogIdle
    /\ KeyIdle

InitStore ==
    /\ rq = NotRun
    /\ FetchIdle
    /\ StoreInit
    /\ SseIdle
    /\ ProbeIdle
    /\ BatchIdle
    /\ NormIdle
    /\ MergeIdle
    /\ LogIdle
    /\ KeyIdle

InitSse ==
    /\ rq = NotRun
    /\ FetchIdle
    /\ StoreIdle
    /\ SseInit
    /\ ProbeIdle
    /\ BatchIdle
    /\ NormIdle
    /\ MergeIdle
    /\ LogIdle
    /\ KeyIdle

RetryNext ==
    \/ OfficialAttempt /\ UNCHANGED <<fetchVars, storeVars, sseVars, probeVars, batchVars, normVars, mergeVars, logVars, keyVars>>
    \/ SmitheryAttempt /\ UNCHANGED <<fetchVars, storeVars, sseVars, probeVars, batchVars, normVars, mergeVars, logVars, keyVars>>

SpecRetry == InitRetry /\ [][RetryNext]_vars

FetchNext ==
    \/ OfficialStart /\ UNCHANGED <<retryVars, storeVars, sseVars, probeVars, batchVars, normVars, mergeVars, logVars, keyVars>>
    \/ OfficialResponse /\ UNCHANGED <<retryVars, storeVars, sseVars, probeVars, batchVars, normVars, mergeVars, logVars, keyVars>>
    \/ OfficialFinally /\ UNCHANGED <<retryVars, storeVars, sseVars, probeVars, batchVars, normVars, mergeVars, logVars, keyVars>>
    \/ SmitheryStart /\ UNCHANGED <<retryVars, storeVars, sseVars, probeVars, batchVars, normVars, mergeVars, logVars, keyVars>>
    \/ SmitheryProbeResponse /\ UNCHANGED <<retryVars, storeVars, sseVars, probeVars, batchVars, normVars, mergeVars, logVars, keyVars>>
    \/ SmitheryListResponse /\ UNCHANGED <<retryVars, storeVars, sseVars, probeVars, batchVars, normVars, mergeVars, logVars, keyVars>>
    \/ SmitheryGetResponse /\ UNCHANGED <<retryVars, storeVars, sseVars, probeVars, batchVars, normVars, mergeVars, logVars, keyVars>>
    \/ SmitheryFinally /\ UNCHANGED <<retryVars, storeVars, sseVars, probeVars, batchVars, normVars, mergeVars, logVars, keyVars>>
    \/ Interrupt /\ UNCHANGED <<retryVars, storeVars, sseVars, probeVars, batchVars, normVars, mergeVars, logVars, keyVars>>

SpecFetch == InitFetch /\ [][FetchNext]_vars

InitFullFetch ==
    /\ rq = NotRun
    /\ FetchInit
    /\ StoreIdle
    /\ SseIdle
    /\ ProbeIdle
    /\ BatchIdle
    /\ NormIdle
    /\ MergeIdle
    /\ LogInit
    /\ KeyIdle

otherThanFetch == <<retryVars, storeVars, sseVars, probeVars, batchVars,
                    normVars, mergeVars, keyVars>>

\* the runs without limit, with the registry's count
FullFetchNext ==
    \/ OfficialStart /\ limit' = NoLimit /\ LogStart /\ UNCHANGED otherThanFetch
    \/ OfficialResponse /\ LogPage /\ UNCHANGED otherThanFetch
    \/ OfficialFinally /\ UNCHANGED logVars /\ UNCHANGED otherThanFetch
    \/ SmitheryStart /\ limit' = NoLimit /\ LogStart /\ UNCHANGED otherThanFetch
    \/ SmitheryProbeResponse /\ UNCHANGED logVars /\ UNCHANGED otherThanFetch
    \/ SmitheryListResponse /\ LogPage /\ UNCHANGED otherThanFetch
    \/ SmitheryGetResponse /\ LogRecord /\ UNCHANGED otherThanFetch
    \/ SmitheryFinally /\ UNCHANGED logVars /\ UNCHANGED otherThanFetch
    \/ Interrupt /\ UNCHANGED logVars /\ UNCHANGED otherThanFetch

SpecFullFetch == InitFullFetch /\ [][FullFetchNext]_vars

StoreNext ==
    \E c \in Clients :
      \/ StoreLoad(c) /\ UNCHANGED <<retryVars, fetchVars, sseVars, probeVars, batchVars, normVars, mergeVars, logVars, keyVars>>
      \/ StoreExit(c) /\ UNCHANGED <<retryVars, fetchVars, sseVars, probeVars, batchVars, normVars, mergeVars, logVars, keyVars>>
      \/ StoreSaveOpen(c) /\ UNCHANGED <<retryVars, fetchVars, sseVars, probeVars, batchVars, normVars, mergeVars, logVars, keyVars>>
      \/ StoreSaveWrite(c) /\ UNCHANGED <<retryVars, fetchVars, sseVars, probeVars, batchVars, normVars, mergeVars, logVars, keyVars>>
      \/ StoreSaveClose(c) /\ UNCHANGED <<retryVars, fetchVars, sseVars, probeVars, batchVars, normVars, mergeVars, logVars, keyVars>>
      \/ StoreCrash(c) /\ UNCHANGED <<retryVars, fetchVars, sseVars, probeVars, batchVars, normVars, mergeVars, logVars, keyVars>>

SpecStore == InitStore /\ [][StoreNext]_vars

SseNext ==
    \/ SseScanLine /\ UNCHANGED <<retryVars, fetchVars, storeVars, probeVars, batchVars, normVars, mergeVars, logVars, keyVars>>
    \/ SseNoResponse /\ UNCHANGED <<retryVars, fetchVars, storeVars, probeVars, batchVars, normVars, mergeVars, logVars, keyVars>>
    \/ JsonBody /\ UNCHANGED <<retryVars, fetchVars, storeVars, probeVars, batchVars, normVars, mergeVars, logVars, keyVars>>

SpecSse == InitSse /\ [][SseNext]_vars

InitProbe ==
    /\ rq = NotRun
    /\ FetchIdle
    /\ StoreIdle
    /\ SseIdle
    /\ ProbeInit
    /\ BatchIdle
    /\ NormIdle
    /\ MergeIdle
    /\ LogIdle
    /\ KeyIdle

ProbeNext ==
    \/ ProbeFor /\ UNCHANGED <<retryVars, fetchVars, storeVars, sseVars, batchVars, normVars, mergeVars, logVars, keyVars>>
    \/ ProbeAnswer /\ UNCHANGED <<retryVars, fetchVars, storeVars, sseVars, batchVars, normVars, mergeVars, logVars, keyVars>>

SpecProbe == InitProbe /\ [][ProbeNext]_vars

InitBatch ==
    /\ rq = NotRun
    /\ FetchIdle
    /\ StoreIdle
    /\ SseIdle
    /\ ProbeIdle
    /\ BatchInit
    /\ NormIdle
    /\ MergeIdle
    /\ LogIdle
    /\ KeyIdle

otherThanBatch == <<retryVars, fetchVars, storeVars, sseVars, probeVars,
                    normVars, mergeVars, logVars, keyVars>>

BatchNext ==
    \/ BatchStart /\ UNCHANGED otherThanBatch
    \/ BatchAwait /\ UNCHANGED otherThanBatch
    \/ BatchSave /\ UNCHANGED otherThanBatch
    \/ BatchInterrupt /\ UNCHANGED otherThanBatch

SpecBatch == InitBatch /\ [][BatchNext]_vars

InitBatches ==
    /\ rq = NotRun
    /\ FetchIdle
    /\ StoreIdle
    /\ SseIdle
    /\ ProbeIdle
    /\ BatchesInit
    /\ NormIdle
    /\ MergeIdle
    /\ LogIdle
    /\ KeyIdle

\* one run, in which the introspection of at most one entity fails or raises
OneRunOneFailure == batch_runs <= 1 /\ stats.failed <= 1

BatchesNext ==
    \/ BatchStart /\ OneRunOneFailure' /\ UNCHANGED otherThanBatch
    \/ BatchAwait /\ OneRunOneFailure' /\ UNCHANGED otherThanBatch
    \/ BatchSave /\ OneRunOneFailure' /\ UNCHANGED otherThanBatch
    \/ BatchInterrupt /\ OneRunOneFailure' /\ UNCHANGED otherThanBatch

SpecBatches == InitBatches /\ [][BatchesNext]_vars

InitNormalize ==
    /\ rq = NotRun
    /\ FetchIdle
    /\ StoreIdle
    /\ SseIdle
    /\ ProbeIdle
    /\ BatchIdle
    /\ NormInit
    /\ MergeIdle
    /\ LogIdle
    /\ KeyIdle

NormalizeNext ==
    \/ Normalize /\ UNCHANGED <<retryVars, fetchVars, storeVars, sseVars, probeVars, batchVars, mergeVars, logVars, keyVars>>

SpecNormalize == InitNormalize /\ [][NormalizeNext]_vars

InitMerge ==
    /\ rq = NotRun
    /\ FetchIdle
    /\ StoreIdle
    /\ SseIdle
    /\ ProbeIdle
    /\ BatchIdle
    /\ NormIdle
    /\ MergeInit
    /\ LogIdle
    /\ KeyIdle

MergeNext ==
    \/ Deduplicate /\ UNCHANGED <<retryVars, fetchVars, storeVars, sseVars, probeVars, batchVars, normVars, logVars, keyVars>>
    \/ BuildUnified /\ UNCHANGED <<retryVars, fetchVars, storeVars, sseVars, probeVars, batchVars, normVars, logVars, keyVars>>
    \/ WriteIndex /\ UNCHANGED <<retryVars, fetchVars, storeVars, sseVars, probeVars, batchVars, normVars, logVars, keyVars>>

SpecMerge == InitMerge /\ [][MergeNext]_vars

RemergeNext ==
    \/ Deduplicate /\ UNCHANGED <<retryVars, fetchVars, storeVars, sseVars, probeVars, batchVars, normVars, logVars, keyVars>>
    \/ BuildUnified /\ UNCHANGED <<retryVars, fetchVars, storeVars, sseVars, probeVars, batchVars, normVars, logVars, keyVars>>
    \/ WriteIndex /\ UNCHANGED <<retryVars, fetchVars, storeVars, sseVars, probeVars, batchVars, normVars, logVars, keyVars>>
    \/ MergeAgain /\ UNCHANGED <<retryVars, fetchVars, storeVars, sseVars, probeVars, batchVars, normVars, logVars, keyVars>>

SpecRemerge == InitMerge /\ [][RemergeNext]_vars

InitKeys ==
    /\ rq = NotRun
    /\ FetchIdle
    /\ StoreIdle
    /\ SseIdle
    /\ ProbeIdle
    /\ BatchIdle
    /\ NormIdle
    /\ MergeIdle
    /\ LogIdle
    /\ KeyInit

KeysNext ==
    \/ MakeKeys /\ UNCHANGED <<retryVars, fetchVars, storeVars, sseVars, probeVars, batchVars, normVars, mergeVars, logVars>>

SpecKeys == InitKeys /\ [][KeysNext]_vars

(***************************************************************************)
(* RetryingHttpClient: the retry policy (SpecRetry).                       *)
(***************************************************************************)
Retryable(o) == o.kind = "net" \/ o.status = 429 \/ o.status >= 500
RateLimited(o) == o.kind = "http" /\ o.status = 429
ClientError(o) ==
    o.kind = "http" /\ o.status >= 400 /\ o.status < 500 /\ o.status # 429
AllRetryable(r) == \A i \in 1..Len(r.outcomes) : Retryable(r.outcomes[i])
BaseDelay(c) == IF c = "official" THEN Official_RETRY_DELAY ELSE Smithery_RETRY_DELAY

\* C1: while every attempt fails with a retryable failure (429, 5xx, network
\* error) the call goes on until 3 requests are sent, and then raises the
\* failure of the third attempt; it never ends earlier, never returns.
C1_RetryCeiling ==
    \A c \in Clients :
      LET r == rq[c] IN
      AllRetryable(r) =>
        /\ r.sent = Len(r.outcomes)
        /\ r.sent <= 3
        /\ r.status = "running" <=> r.sent < 3
        /\ r.status # "running" =>
             /\ r.status = "raised"
             /\ r.raised = <<r.outcomes[3]>>
             /\ r.raised = r.last_error

C1_Witness ==
    \E c \in Clients :
      /\ rq[c].status = "raised"
      /\ rq[c].outcomes = <<Http(429), Http(429), Http(429)>>
      /\ RateLimited(rq[c].raised[1])

\* C2: an attempt answered by a 4xx other than 429 is the last one: the call
\* has raised that failure, no request follows it, and it has slept only
\* after the failures before it.
C2_ClientErrorIsTerminal ==
    \A c \in Clients :
      LET r == rq[c] IN
      \A i \in 1..Len(r.outcomes) :
        ClientError(r.outcomes[i]) =>
          /\ i = Len(r.outcomes)
          /\ r.sent = i
          /\ r.status = "raised"
          /\ r.raised = <<r.outcomes[i]>>
          /\ Len(r.sleeps) = i - 1

C2_Witness ==
    \E c \in Clients :
      /\ rq[c].outcomes = <<Http(503), Http(429), Http(404)>>
      /\ rq[c].status = "raised"

\* the delay slept after the failed attempt number i (1, 2, 3) of a call
SleptAfter(r, i) == r.sleeps[i]

\* C3, as amended: after the failed attempt with index attempt (0, 1, 2) the
\* backoff is base delay x 2^attempt for a 429 and base delay x (attempt + 1)
\* for a 5xx or a network error; the delays of one call strictly increase;
\* and both clients take the same decisions and delays on the same failures.
C3_Backoff ==
    /\ \A c \in Clients :
         LET r == rq[c] IN
         /\ \A i \in 1..Len(r.sleeps) :
              SleptAfter(r, i) =
                IF RateLimited(r.outcomes[i])
                  THEN BaseDelay(c) * Pow2(i - 1)
                  ELSE BaseDelay(c) * ((i - 1) + 1)
         /\ \A i, j \in 1..Len(r.sleeps) :
              i < j => SleptAfter(r, i) < SleptAfter(r, j)
    /\ rq["official"].outcomes = rq["smithery"].outcomes
         => rq["official"] = rq["smithery"]

C3_Witness ==
    /\ rq["official"].outcomes = <<Http(429), Http(500), NetworkError>>
    /\ rq["smithery"].outcomes = <<Http(429), Http(500), NetworkError>>
    /\ rq["official"].sleeps = <<2, 4, 6>>

\* C3, as claimed: with attempt the index of the failed attempt (counted from
\* 0 or from 1, the same way in both formulas) the backoff is
\* base delay x 2^attempt for a 429 and base delay x attempt otherwise.
C3_AsClaimed ==
    \E first \in {0, 1} :
      \A c \in Clients :
        LET r == rq[c] IN
        \A i \in 1..Len(r.sleeps) :
          SleptAfter(r, i) =
            IF RateLimited(r.outcomes[i])
              THEN BaseDelay(c) * Pow2(i - 1 + first)
              ELSE BaseDelay(c) * (i - 1 + first)

(***************************************************************************)
(* RegistryFetcher: limit, pagination, resumption (SpecFetch).             *)
(***************************************************************************)
InFlight == pc = "request"
Ended == pc \in {"finally", "done"}

\* C4: in a run with a limit L > 0 the number of records saved never exceeds
\* L, and no request (list, cursor or per-record detail) is in flight once
\* it has reached L.
C4_LimitRespected ==
    limit # NoLimit =>
      /\ servers_fetched <= limit
      /\ InFlight => servers_fetched < limit

C4_Witness ==
    /\ source = "official"
    /\ limit = 1
    /\ servers = 2
    /\ metadata # None
    /\ servers_fetched = 1
    /\ pc = "finally"

\* C5, as amended: without limit, the first request of the cursor-based
\* fetcher carries no cursor, every later one carries the nextCursor of the
\* response just before it, which had servers, and the loop ends normally
\* only after a response that has no nextCursor or no servers.
C5_CursorChain ==
    (source = "official" /\ limit = NoLimit) =>
      /\ (InFlight /\ nreq = 1) => request.cursor = None
      /\ (InFlight /\ nreq > 1) =>
           /\ metadata # None
           /\ request.cursor = metadata
           /\ servers > 0
      /\ (Ended /\ exit = "normal") => (metadata = None \/ servers = 0)

C5_Witness ==
    /\ source = "official"
    /\ limit = NoLimit
    /\ InFlight
    /\ nreq = 2
    /\ request.cursor = "c2"

\* C5, as claimed: a response that carries a nextCursor is always followed
\* by a further request, so the loop ends normally only after a response
\* that has no nextCursor.
C5_AsClaimed ==
    (source = "official" /\ limit = NoLimit /\ Ended /\ exit = "normal")
      => metadata = None

\* C6: without limit, the k-th list request of the page-based fetcher is for
\* page k, never for a page beyond total_pages, and the loop ends normally
\* before all total_pages pages were requested only after an empty page.
C6_PageSequence ==
    (source = "smithery" /\ limit = NoLimit) =>
      /\ (InFlight /\ request.kind = "list") =>
           /\ request.page = nreq
           /\ request.page >= 1
           /\ request.page <= total_pages
      /\ (Ended /\ exit = "normal" /\ nreq < total_pages) => servers = 0

C6_Witness ==
    /\ source = "smithery"
    /\ limit = NoLimit
    /\ InFlight
    /\ request.kind = "list"
    /\ request.page = 2
    /\ total_pages = 2

\* C7, as claimed: a record that cannot be fetched, parsed or saved is
\* skipped; no run ends because of it.
C7_AsClaimed == exit # "record_error"

\* C8, as claimed: the run after a run that was interrupted with pages saved
\* sends its first request with the cursor the interrupted run stored.
C8_AsClaimed ==
    (/\ source = "official"
     /\ prev_exit = "interrupt"
     /\ state.last_cursor # None
     /\ InFlight
     /\ nreq = 1) => request.cursor = state.last_cursor

\* a run whose finally block stored a last_sync
StoredLastSync ==
    /\ pc = "done"
    /\ IF source = "official" THEN servers_fetched > 0
       ELSE exit \in {"normal", "interrupt", "error"}

\* C9: the last_sync a run stores is the timestamp taken when the run began
\* its loop: not later than its first list request, hence not later than any
\* moment of the loop, and earlier than the end of a run that got an answer.
C9_LastSyncStampedAtStart ==
    /\ (InFlight /\ request.kind # "probe") =>
         (sync_start <= first_req_at /\ first_req_at <= clock)
    /\ StoredLastSync =>
         /\ state.last_sync = sync_start
         /\ first_req_at # NoTime => state.last_sync <= first_req_at
         /\ servers_fetched > 0 => state.last_sync < clock

C9_Witness ==
    /\ StoredLastSync
    /\ source = "official"
    /\ nreq = 2
    /\ state.last_sync + 2 = clock

\* C10: every request of an official run started without --full and without
\* a since value carries the stored last_sync as updated_since (none when
\* nothing is stored); no request of a --full run carries an updated_since.
C10_IncrementalFilter ==
    (source = "official" /\ InFlight) =>
      /\ (~full_sync /\ updated_since = NoTime) =>
           request.updated_since = state.last_sync
      /\ full_sync => request.updated_since = NoTime

C10_Witness ==
    /\ source = "official"
    /\ InFlight
    /\ ~full_sync
    /\ updated_since = NoTime
    /\ state.last_sync # NoTime
    /\ nreq = 2
    /\ request.updated_since = state.last_sync

\* C13: a run of either fetcher that was interrupted after k >= 1 records
\* were saved has stored, when it is over, its last_sync, the cursor or page
\* it had reached, and a history entry with the count k.
C13_InterruptPersistsProgress ==
    (pc = "done" /\ exit = "interrupt" /\ servers_fetched >= 1) =>
      /\ state.last_sync = sync_start
      /\ IF source = "official" THEN state.last_cursor = cursor
         ELSE state.last_page = page
      /\ state.sync_history # <<>>
      /\ Last(state.sync_history).servers_fetched = servers_fetched

C13_Witness ==
    /\ source = "smithery"
    /\ pc = "done"
    /\ exit = "interrupt"
    /\ servers_fetched = 1
    /\ state.last_page = 2
    /\ Len(state.sync_history) = 1

\* the ways out of the loop of the official pull_servers
Official_exits == {"normal", "interrupt", "error", "record_error"}

Progress(st) == <<st.last_sync, st.last_cursor, st.sync_history>>

\* C36: in the official fetcher every way out of the loop (completion,
\* interrupt, error of a request or of a record) enters the finally block,
\* whose step saves the state and ends the run; that step changes last_sync,
\* last_cursor and the sync history if and only if the run saved at least
\* one server (then last_sync and the history are new and last_cursor is the
\* cursor reached), and a run that saved none leaves them as loaded.
C36_Step ==
    source = "official" =>
      /\ exit' # exit => (IF exit' = "none" THEN runs' = runs + 1
                          ELSE exit' \in Official_exits /\ pc' = "finally")
      /\ pc' = "done" => pc = "finally"
      /\ pc = "finally" =>
           /\ pc' = "done"
           /\ exit' = exit
           /\ Progress(state') # Progress(state) <=> servers_fetched > 0
           /\ servers_fetched > 0 =>
                /\ state'.last_sync # state.last_sync
                /\ state'.last_cursor = cursor
                /\ state'.sync_history # state.sync_history
      /\ pc # "finally" => state' = state

C36_FinallyWritesProgress == [][C36_Step]_vars

C36_Witness ==
    /\ source = "official"
    /\ pc = "done"
    /\ runs = 2
    /\ exit = "error"
    /\ servers_fetched = 0
    /\ state.last_sync # NoTime
    /\ Len(state.sync_history) = 1

\* the ways the page-count probe fails
Smithery_fatal == {"no_key", "probe_failed"}

\* C37: when the Smithery run finds no API key or its page-count probe
\* raises, the run is over with that step: no request is in flight, no page
\* was requested, no record saved, the stored state is as it was, and the
\* next step is the start of another run.
C37_Step ==
    source = "smithery" =>
      /\ (exit' \in Smithery_fatal /\ (exit' # exit \/ runs' # runs)) =>
           /\ pc' = "done"
           /\ request' = NoRequest
           /\ nreq' = 0
           /\ servers_fetched' = 0
           /\ state' = state
      /\ exit \in Smithery_fatal => runs' = runs + 1

C37_FatalProbeEndsRun == [][C37_Step]_vars

C37_Witness ==
    /\ source = "smithery"
    /\ pc = "done"
    /\ runs = 2
    /\ exit = "probe_failed"
    /\ nreq = 0
    /\ servers_fetched = 0
    /\ state.last_sync # NoTime
    /\ Len(state.sync_history) = 1

(***************************************************************************)
(* SyncStateStore: loading and saving (SpecStore).                         *)
(***************************************************************************)
\* C11, as claimed: loading never fails, and what is loaded from a state file
\* that is missing, unreadable or not valid JSON is the zero-value default,
\* for the state stores of both fetchers.
C11_AsClaimed ==
    \A c \in Clients :
      /\ sync_state[c].status # "raised"
      /\ (sync_state[c].status = "loaded" /\ ~IsValidJSON(state_file[c]))
           => sync_state[c].state = Default_state(c)

\* C12, as claimed: after a process died during save(), the state file holds
\* what it held before the save or the complete new state.
C12_AsClaimed ==
    \A c \in Clients :
      last_save[c].crashed =>
        \/ state_file[c] = last_save[c].old
        \/ state_file[c] = CompleteFile(last_save[c].new)

(***************************************************************************)
(* CapabilityIntrospector: the batch run (SpecBatch).                      *)
(***************************************************************************)
\* C14, as claimed: when a run is over, also one that was interrupted, every
\* outcome file written has its mark in the persisted introspection state:
\* a success is among the introspected, a failure among the failed.
C14_AsClaimed ==
    batch_pc = "done" =>
      \A id \in ServerIds :
        /\ introspection_dir[id] = "success"
             => id \in introspection_state_file.introspected
        /\ introspection_dir[id] = "failure"
             => id \in introspection_state_file.failed

(***************************************************************************)
(* CapabilityIntrospector: probing one entity (SpecProbe).                 *)
(***************************************************************************)
\* the answer to the query m sent to remote i ("none": not sent)
AnswerOf(i, m) ==
    IF \E k \in 1..Len(sent) : sent[k].remote = i /\ sent[k].method = m
      THEN sent[CHOOSE k \in 1..Len(sent) :
                   sent[k].remote = i /\ sent[k].method = m].answer
      ELSE "none"

\* a request was sent to remote i
Asked(i) == \E k \in 1..Len(sent) : sent[k].remote = i

Failed(a) == a \in {"rpc_error", "timeout"}

\* the three queries of remote i are answered
Probed(i) == \A q \in 1..3 : AnswerOf(i, Methods[q]) \notin {"none", "pending"}

\* ... and one of them returned a non-empty list
Succeeded(i) == Probed(i) /\ \E q \in 1..3 : AnswerOf(i, Methods[q]) = "list"

\* the list remote i returned for m
ListAnswered(i, m) == IF AnswerOf(i, m) = "list" THEN ListOf(i, m) ELSE <<>>

\* remote i has a url, readable headers and a transport introspect speaks
Probeable(i) ==
    /\ remotes[i].url
    /\ remotes[i].headers_ok
    /\ remotes[i].type \in {"streamable-http", "sse"}

\* the error strings the queries of remote i added, in order
RECURSIVE ErrorsFrom(_, _)
ErrorsFrom(i, q) ==
    IF q > 3 THEN <<>>
    ELSE IF Failed(AnswerOf(i, Methods[q]))
      THEN <<ErrorOf(Methods[q], AnswerOf(i, Methods[q]))>> \o ErrorsFrom(i, q + 1)
    ELSE ErrorsFrom(i, q + 1)

ErrorsOf(i) == ErrorsFrom(i, 1)

StdioOnly == <<ErrorOf("none", "stdio_only")>>

\* C15: requests go to the remotes in their declared order, to a remote only
\* after every probeable remote before it was probed without success; a
\* remote that returned a non-empty list to any of its three queries ends the
\* probe with success, its transport, its url and exactly its three lists,
\* and nothing is sent to a later remote; a success has no other origin.
C15_FirstSuccessWins ==
    /\ \A i \in 1..Len(remotes) :
         Asked(i) =>
           /\ Probeable(i)
           /\ \A j \in 1..(i - 1) :
                Probeable(j) => (Probed(j) /\ ~Succeeded(j))
    /\ \A i \in 1..Len(remotes) :
         Succeeded(i) =>
           /\ probe_pc = "returned"
           /\ result.success
           /\ result.transport_used = remotes[i].type
           /\ result.endpoint_url = i
           /\ result.tools = ListAnswered(i, "tools/list")
           /\ result.prompts = ListAnswered(i, "prompts/list")
           /\ result.resources = ListAnswered(i, "resources/list")
           /\ \A k \in 1..Len(sent) : sent[k].remote <= i
    /\ result.success => \E i \in 1..Len(remotes) : Succeeded(i)

\* a first endpoint that returns only errors, a second that returns tools
C15_Witness ==
    /\ probe_pc = "returned"
    /\ Len(remotes) = 2
    /\ remotes[1].type = "streamable-http"
    /\ remotes[2].type = "sse"
    /\ \A q \in 1..3 : Failed(AnswerOf(1, Methods[q]))
    /\ AnswerOf(2, "tools/list") = "list"
    /\ result.success
    /\ result.transport_used = "sse"
    /\ result.tools = ListOf(2, "tools/list")

\* C16: the requests come in groups of three to one remote, tools/list,
\* prompts/list, resources/list in that order, whatever the answers; the
\* lists and errors gathered for the remote being probed are exactly the
\* lists its queries returned and one error string per failed query; and a
\* timeout never ends introspect: it is an answer like another.
C16_QueriesIndependent ==
    /\ \A k \in 1..Len(sent) :
         /\ sent[k].method = Methods[((k - 1) % 3) + 1]
         /\ (k - 1) % 3 # 0 => sent[k].remote = sent[k - 1].remote
         /\ k < Len(sent) => sent[k].answer # "pending"
    /\ probe_pc # "query" => Len(sent) % 3 = 0
    /\ probe_pc = "query" =>
         /\ (Len(sent) - 1) % 3 = query_no
         /\ Last(sent).answer = "pending"
    /\ sent # <<>> =>
         LET i == Last(sent).remote IN
         /\ caps.tools = ListAnswered(i, "tools/list")
         /\ caps.prompts = ListAnswered(i, "prompts/list")
         /\ caps.resources = ListAnswered(i, "resources/list")
         /\ caps.errors = ErrorsOf(i)
    /\ probe_pc \in {"for", "query", "returned"}

C16_Witness ==
    /\ probe_pc = "returned"
    /\ Len(sent) = 3
    /\ AnswerOf(1, "tools/list") = "timeout"
    /\ AnswerOf(1, "prompts/list") = "list"
    /\ AnswerOf(1, "resources/list") = "rpc_error"
    /\ caps.prompts = ListOf(1, "prompts/list")
    /\ Len(caps.errors) = 2
    /\ result.success

\* C17, as claimed: the outcome of a probe that tried its endpoints without
\* success carries the error recorded for the first endpoint tried.
C17_AsClaimed ==
    (/\ probe_pc = "returned"
     /\ ~result.success
     /\ sent # <<>>
     /\ ErrorsOf(sent[1].remote) # <<>>)
      => result.error = Probe_error(ErrorsOf(sent[1].remote))

\* C18, as claimed: an outcome has an error exactly when it is not a success.
C18_AsClaimed ==
    probe_pc = "returned" => (result.error # <<>> <=> ~result.success)

\* C19, as claimed: an outcome is stdio_only only for an entity none of whose
\* endpoints was sent a request.
C19_AsClaimed ==
    (probe_pc = "returned" /\ result.error = StdioOnly) => sent = <<>>

(***************************************************************************)
(* CapabilityIntrospector: the replies to a request (SpecSse).             *)
(***************************************************************************)
\* the lines of the reply that are a data: line with a well-formed JSON-RPC
\* payload that has a result
Qualifying == {i \in 1..Len(stream) : stream[i].data /\ stream[i].payload = "result"}

FirstQualifying == CHOOSE i \in Qualifying : \A j \in Qualifying : i <= j

\* C20, as claimed: the call returns the result of the first qualifying line
\* of the reply, whatever the lines before it are, and fails only when no
\* line qualifies.
C20_AsClaimed ==
    (content_type = "text/event-stream" /\ reply.status # "scanning") =>
      IF Qualifying # {}
        THEN /\ reply.status = "returned"
             /\ reply.result = stream[FirstQualifying].result
        ELSE reply.status = "raised"

\* the reply is a JSON-RPC error payload: the document of a plain reply, or
\* the one data line of an event stream
ErrorPayload ==
    IF content_type = "text/event-stream"
      THEN /\ \E i \in 1..Len(stream) : stream[i].payload = "error"
           /\ \A i \in 1..Len(stream) : stream[i].payload \in {"error", "none"}
           /\ \A i, j \in 1..Len(stream) :
                (stream[i].data /\ stream[j].data) => i = j
      ELSE body.payload = "error"

PayloadCode ==
    IF content_type = "text/event-stream"
      THEN stream[CHOOSE i \in 1..Len(stream) : stream[i].payload = "error"].code
      ELSE body.code

\* C21, as the claim states it: a reply that is a JSON-RPC error payload, in a
\* plain body or in an event stream, makes the query fail with a failure that
\* carries the payload's code and message, and is never returned as a result.
\* Violated: in an event stream the line of the payload has no result member
\* and is passed over; the query fails with "No valid JSON-RPC response in SSE
\* stream", which has neither the code nor the message.
C21_AsClaimed ==
    (reply.status # "scanning" /\ ErrorPayload) =>
      /\ reply.status = "raised"
      /\ reply.error = RpcError(PayloadCode)

(***************************************************************************)
(* CapabilityIntrospector: runs over more than one batch (SpecBatches).    *)
(***************************************************************************)
\* the positions a..b of server_list that hold an entity with remotes
WithRemotes(a, b) ==
    {k \in a..b : k <= Len(server_list) /\ servers_dir[server_list[k]]}

\* the last position of the batch that begins after position batch_i
BatchEnd ==
    IF batch_i + MAX_CONCURRENT < Len(server_list)
      THEN batch_i + MAX_CONCURRENT ELSE Len(server_list)

\* the probe of the entity has ended, with a success or a failure (a run
\* of SpecBatches begins with no entity marked)
Completed(id) ==
    id \in introspection_state.introspected \cup introspection_state.failed

\* C22: at every moment at most MAX_CONCURRENT probes are in flight: the
\* probes in flight are among the tasks of the batch, which are at most
\* MAX_CONCURRENT and all of the batch's positions of the list; and while a
\* probe of a batch is in flight every probe of the batches before it has
\* ended.
C22_BoundedWindow ==
    /\ batch_pc # "await" => in_flight = {}
    /\ batch_pc = "await" =>
         /\ Cardinality(in_flight) <= MAX_CONCURRENT
         /\ Len(tasks) <= MAX_CONCURRENT
         /\ in_flight \subseteq {tasks[k] : k \in 1..Len(tasks)}
         /\ \A k \in 1..Len(tasks) :
              \E q \in WithRemotes(batch_i + 1, BatchEnd) :
                server_list[q] = tasks[k]
         /\ \A q \in WithRemotes(1, batch_i) : Completed(server_list[q])
         /\ \A id \in in_flight : ~Completed(id)

\* a probe of the second batch is in flight
C22_Witness ==
    /\ batch_pc = "await"
    /\ batch_i = MAX_CONCURRENT
    /\ in_flight = {MAX_CONCURRENT + 1}
    /\ Cardinality(WithRemotes(1, MAX_CONCURRENT)) = MAX_CONCURRENT

\* C23, as the claim states it: the probes of a batch run concurrently: while
\* the batch is awaited, each of its probes that has not ended is in
\* flight, none waits for the one before it. Violated: the coroutines are
\* awaited one after the other in a for loop, and a coroutine begins when it
\* is awaited; of a batch of two, the second begins when the first has ended.
C23_AsClaimed ==
    batch_pc = "await" =>
      \A k \in 1..Len(tasks) : tasks[k] \in in_flight

\* the end of one `await task`, not cut by an interrupt
C24_Step ==
    (batch_pc = "await" /\ batch_exit' # "interrupt") =>
      LET id == Head(tasks) IN
      /\ \/ /\ stats'.success = stats.success + 1
            /\ stats'.failed = stats.failed
            /\ id \in introspection_state'.introspected
         \/ /\ stats'.failed = stats.failed + 1
            /\ stats'.success = stats.success
            /\ id \in introspection_state'.failed
      /\ IF Tail(tasks) # <<>>
           THEN /\ batch_pc' = "await"
                /\ tasks' = Tail(tasks)
                /\ in_flight' = {Head(Tail(tasks))}
           ELSE \/ batch_pc' = "save"
                \/ batch_pc' = "await" /\ batch_i' > batch_i

\* the loop has ended
C24_End ==
    (batch_pc = "save" \/ (batch_pc = "done" /\ batch_exit = "normal")) =>
      /\ \A q \in WithRemotes(1, Len(server_list)) : Completed(server_list[q])
      /\ stats.success + stats.failed
           = Cardinality(WithRemotes(1, Len(server_list)))
      /\ batch_pc = "done" => introspection_state_file = introspection_state

\* C24: whatever the outcome of the probe of an entity (a success, a
\* failure, an exception of the probe or of the writing of its outcome), the
\* entity is counted once, as a success or as failed and marked so, and the
\* loop goes on with the next entity of the batch or with the next batch;
\* when the loop has ended every entity with remotes has been probed, and
\* the run then saves the state it has in memory.
C24_FailureIsolated == []C24_End /\ [][C24_Step]_vars

\* the writing of the outcome of an entity of the first batch raised, the
\* entities of the second batch were probed and the state is saved
C24_Witness ==
    /\ batch_pc = "done"
    /\ batch_exit = "normal"
    /\ Len(server_list) > MAX_CONCURRENT
    /\ stats.processed > stats.success + stats.failed
    /\ \E q \in 1..MAX_CONCURRENT :
         server_list[q] \in introspection_state_file.failed
    /\ server_list[Len(server_list)] \in introspection_state_file.introspected

(***************************************************************************)
(* IdentityNormalizer (SpecNormalize).                                     *)
(***************************************************************************)
\* C25, as the claim states it: normalize("Foo-Bar-MCP-Server-v2.1") is
\* "foo-bar" and normalize("acme_search_server") is "acme-search". Violated
\* by the first: of "foo-bar-mcp-server" the loop removes -server alone
\* (-mcp is tested before it and -mcp-server after it) and returns
\* "foo-bar-mcp".
C25_AsClaimed ==
    normalized.returned =>
      /\ name = FooBar => normalized.value = <<"foo", "-", "bar">>
      /\ name = AcmeSearch => normalized.value = <<"acme", "-", "search">>

\* the suffixes of the set that s ends with
Matching(s) == {k \in 1..Len(SUFFIXES) : EndsWith(s, SUFFIXES[k])}

\* the procedure of the claim: lowercase, strip the version suffix, collapse
\* the separator runs, then remove the longest suffix of the set that
\* matches, once
Reference(n) ==
    LET s == Collapse(StripVersion(Strip(LowerAll(n)))) IN
    IF Matching(s) = {} THEN s
    ELSE LET k == CHOOSE k \in Matching(s) :
                    \A j \in Matching(s) : Len(SUFFIXES[j]) <= Len(SUFFIXES[k])
         IN SubSeq(s, 1, Len(s) - Len(SUFFIXES[k]))

\* C26, as the claim states it: for every input the result is that of the
\* reference procedure, which removes one suffix, the longest that matches.
\* Violated: the suffixes are tested in the order -mcp, -server, -mcp-server
\* and each that matches is removed, so "x-mcp-server" gives "x-mcp" (the
\* longest is not taken) and "x-server-mcp" gives "x" (two are removed).
C26_AsClaimed ==
    normalized.returned => normalized.value = Reference(name)

(***************************************************************************)
(* DeduplicationEngine and UnifiedRecordBuilder (SpecMerge).               *)
(***************************************************************************)
Deduplicated == merge_pc # "loaded"
Unified == merge_pc \in {"unified", "done"}

\* the positions of all_servers whose record has the normalized name n
Members(n) ==
    {k \in 1..Len(all_servers) : all_servers[k]._normalized_name = n}

\* w has the fields of the record r, with their values
SameRecord(w, r) == \A f \in DOMAIN r : f \in DOMAIN w /\ w[f] = r[f]

\* C27: deduplicate_servers gives one record for each normalized name of its
\* input; the record of a name that one input record has is that record,
\* unchanged; the record of a name that several have is one of them, with
\* _sources holding the sources of them all, each once, and
\* _duplicate_count their number.
C27_OnePerIdentity ==
    Deduplicated =>
      /\ Len(deduplicated)
           = Cardinality({all_servers[k]._normalized_name :
                            k \in 1..Len(all_servers)})
      /\ \A k \in 1..Len(all_servers) :
           \E j \in 1..Len(deduplicated) :
             deduplicated[j]._normalized_name = all_servers[k]._normalized_name
      /\ \A j \in 1..Len(deduplicated) :
           LET w == deduplicated[j]
               group == Members(w._normalized_name) IN
           /\ \E k \in group : SameRecord(w, all_servers[k])
           /\ IF Cardinality(group) = 1
                THEN \E k \in group : w = all_servers[k]
                ELSE /\ {w._sources[i] : i \in 1..Len(w._sources)}
                          = {all_servers[k].source : k \in group}
                     /\ \A i, i2 \in 1..Len(w._sources) :
                          w._sources[i] = w._sources[i2] => i = i2
                     /\ w._duplicate_count = Cardinality(group)

\* "X-mcp" of one source and "x" of the other make one record, and "y" of
\* neither would stay alone
C27_Witness ==
    /\ Deduplicated
    /\ Len(all_servers) = 2
    /\ all_servers[1].name # all_servers[2].name
    /\ Len(deduplicated) = 1
    /\ deduplicated[1]._sources = <<"official", "smithery">>
    /\ deduplicated[1]._duplicate_count = 2

\* the tuple of the claim; the capability count of a record is the
\* tool_count the loaders give it
WinnerTuple(r) ==
    <<r.tool_count, r.source_priority, IF r.is_latest THEN 1 ELSE 0>>

WinnerOf(u) ==
    deduplicated[CHOOSE j \in 1..Len(deduplicated) :
                   deduplicated[j].name = u.name]

\* C29, as the claim states it: has_remote is true exactly when the winner
\* has a remote endpoint, and the flag of the capabilities is true exactly
\* when one of the winner's tools, prompts and resources is not empty.
\* Violated: the only such flag is has_tools, which is tool_count > 0; a
\* winner with prompts or resources and no tools has it false.
C29_AsClaimed ==
    Unified =>
      \A j \in 1..Len(unified) :
        LET u == unified[j]
            w == WinnerOf(u) IN
        /\ u.has_remote <=> w.remote_endpoint \notin {None, ""}
        /\ u.has_tools <=> \/ w.tools # <<>>
                            \/ w.prompts # <<>>
                            \/ w.resources # <<>>

\* C30: every winner has its unified record, whose tools, prompts and
\* resources are the winner's and whose tool_count is the length of its
\* tools; its description is the winner's, and in the index it is that
\* description cut to INDEX_DESCRIPTION characters, with the same tool_count.
C30_ListsComplete ==
    /\ Unified =>
         /\ Len(unified) = Len(deduplicated)
         /\ \A k \in 1..Len(deduplicated) :
              \E j \in 1..Len(unified) : unified[j].name = deduplicated[k].name
         /\ \A j \in 1..Len(unified) :
              LET u == unified[j]
                  w == WinnerOf(u) IN
              /\ u.tools = w.tools
              /\ u.prompts = w.prompts
              /\ u.resources = w.resources
              /\ u.tool_names = w.tools
              /\ u.tool_count = Len(u.tools)
              /\ u.description = w.description
    /\ merge_pc = "done" =>
         /\ Len(index) = Len(unified)
         /\ \A j \in 1..Len(index) :
              LET d == unified[j].description IN
              /\ index[j].name = unified[j].name
              /\ index[j].tool_count = Len(unified[j].tools)
              /\ index[j].description.len
                   = IF d.len > INDEX_DESCRIPTION THEN INDEX_DESCRIPTION
                     ELSE d.len

\* a record with two tools, a prompt and a description of 250 characters,
\* of which the index has 200
C30_Witness ==
    /\ merge_pc = "done"
    /\ \E j \in 1..Len(unified) :
         /\ unified[j].tools = <<"t1", "t2">>
         /\ unified[j].prompts = <<"p1">>
         /\ unified[j].description.len > INDEX_DESCRIPTION
         /\ index[j].description.len = INDEX_DESCRIPTION

\* the entries of a list
Entries(list) == {list[i] : i \in 1..Len(list)}

\* C31, as the claim states it: the unified record of a normalized name has
\* every tool, prompt and resource that a record of its group has. Violated:
\* the unified record has the lists of the winner alone; the prompt of an
\* official record that loses to a smithery record with more tools is in no
\* unified record.
C31_AsClaimed ==
    Unified =>
      \A j \in 1..Len(unified) :
        LET u == unified[j]
            w == WinnerOf(u) IN
        \A k \in Members(w._normalized_name) :
          /\ Entries(all_servers[k].tools) \subseteq Entries(u.tools)
          /\ Entries(all_servers[k].prompts) \subseteq Entries(u.prompts)
          /\ Entries(all_servers[k].resources) \subseteq Entries(u.resources)

(***************************************************************************)
(* Merge runs one after the other (SpecRemerge).                           *)
(***************************************************************************)
\* the second list holds the records of the first, in some order
SameFiles(a, b) ==
    /\ Len(a) = Len(b)
    /\ \E p \in Permutations(1..Len(a)) : \A k \in 1..Len(a) : b[k] = a[p[k]]

\* C32, as the claim states it: a run over the same record files as the run
\* before, read in whatever order, gives the same unified records in the
\* same order. Violated: max() takes the first of the members that are
\* equal on the key, and glob() gives the files in no fixed order; of two
\* records of a group with as many tools, the same source and the same
\* is_latest, the one read first wins, with its own name and description.
C32_AsClaimed ==
    (Unified /\ merge_runs >= 2 /\ SameFiles(previous.all_servers, all_servers))
      => unified = previous.unified

\* C34, as the claim states it: when a run has ended, every file of
\* unified/servers holds a unified record of that run. Violated: the files
\* are written one by one under the winner's name and none is removed;
\* when the winner of a group is now a record of another name, the file of
\* the former winner stays.
C34_AsClaimed ==
    merge_pc = "done" =>
      \A e \in unified_files : e.server \in Entries(unified)

(***************************************************************************)
(* CapabilityIntrospector: runs one after the other (SpecBatch).           *)
(***************************************************************************)

\* the ids selected for the run
Selected(list) == {list[k] : k \in 1..Len(list)}

\* servers[:limit] may have cut the list
Cut(list, l) == l # NoLimit /\ Len(list) >= l

\* a step that starts a run
RunStarts == batch_runs' = batch_runs + 1

\* C33, as stated: at the start of a run without --force no entity of the
\* introspected map of the state file is selected, and every entity whose
\* outcome file holds a failure, and every entity without remotes (it was
\* skipped), is selected unless the limit cut the list; at the start of a
\* run with --force every entity with remotes is selected unless the limit
\* cut the list.
C33_Step ==
    RunStarts =>
      \A id \in DOMAIN servers_dir :
        LET sel == Selected(server_list')
            cut == Cut(server_list', batch_limit') IN
        IF force'
          THEN (servers_dir[id] /\ ~cut) => id \in sel
          ELSE /\ id \in introspection_state_file.introspected => id \notin sel
               /\ ((introspection_dir[id] = "failure" \/ ~servers_dir[id])
                    /\ ~cut) => id \in sel

C33_AsClaimed == [][C33_Step]_vars

\* C38, as stated: when a run has ended normally, processed = success +
\* failed and processed + skipped is the number of the selected entities.
C38_AsClaimed ==
    (batch_pc = "done" /\ batch_exit = "normal") =>
      /\ stats.processed = stats.success + stats.failed
      /\ stats.processed + stats.skipped = Len(server_list)

\* C39, as stated: no id is at once in the introspected map and in the
\* failed map, in the running state and in the state file.
C39_AsClaimed ==
    /\ introspection_state.introspected \cap introspection_state.failed = {}
    /\ introspection_state_file.introspected
          \cap introspection_state_file.failed = {}

(***************************************************************************)
(* RegistryFetcher: a fetch without limit (SpecFullFetch).                 *)
(***************************************************************************)

\* a run without limit has left its loop, no request and no save of it failed
FullFetchEnded ==
    /\ pc \in {"finally", "done"}
    /\ exit = "normal"
    /\ limit = NoLimit
    /\ lost = 0

C40_AsClaimed ==
    outcome_keys.made =>
      /\ outcome_keys.enriched = outcome_keys.save
      /\ outcome_keys.merged = outcome_keys.save


====
